---------------------------- MODULE Spec2Model ----------------------------
(***************************************************************************)
(* mcpd: the tool aggregator and router (aggregator.ts), the service       *)
(* supervisor (service-manager.ts) and the stdio<->SSE proxy (proxy.ts).   *)
(*                                                                         *)
(* A JavaScript string is a sequence of one-character strings, so that     *)
(* indexOf, slice and concatenation are computed and not assumed.          *)
(***************************************************************************)
EXTENDS Integers, Sequences, FiniteSets, TLC

(***************************************************************************)
(* Bounds of the model.                                                    *)
(***************************************************************************)
MaxBackends == 2

(***************************************************************************)
(* Strings.                                                                *)
(***************************************************************************)
US == "_"

\* String.prototype.indexOf(ch, from): 0-based position of the first ch at or
\* after from, -1 when there is none.
RECURSIVE indexOf(_, _, _)
indexOf(s, ch, from) ==
  IF from >= Len(s) THEN -1
  ELSE IF s[from + 1] = ch THEN from
  ELSE indexOf(s, ch, from + 1)

\* String.prototype.slice(lo, hi) for 0 <= lo <= hi <= length.
slice(s, lo, hi) == SubSeq(s, lo + 1, hi)

\* The template literal `${name}_${tool.name}`.
externalName(name, tool) == name \o <<US>> \o tool

(***************************************************************************)
(* The inputs the model draws from.                                        *)
(***************************************************************************)
\* Backend names: plain, with an underscore, and prefixes of one another.
ServiceNames == { <<"a">>, <<"b">>, <<"a", "_", "b">> }

\* Tool names as the backends know them, with and without underscores.
ToolNames == { <<"t">>, <<"b">>, <<"b", "_", "t">> }

\* Tool.description: absent, empty or a text.
Undefined == "undefined"

\* Two backend clients and what their listTools() returns, in backend order.
Clients == { "c1", "c2" }

listTools(client) ==
  IF client = "c1"
  THEN << [name |-> <<"t">>, description |-> "Find a symbol"],
          [name |-> <<"b", "_", "t">>, description |-> Undefined] >>
  ELSE << [name |-> <<"b">>, description |-> ""],
          [name |-> <<"t">>, description |-> "Search code"] >>

\* The optional excludeTools argument of addBackend: undefined, [] or names.
ExcludeArgs ==
  { [given |-> FALSE, tools |-> {}], [given |-> TRUE, tools |-> {}],
    [given |-> TRUE, tools |-> {<<"t">>}],
    [given |-> TRUE, tools |-> {<<"b", "_", "t">>, <<"b">>}] }

\* Names a caller may pass to parseName / routeToolCall: every external name
\* a listing can hold, every bare tool name, and names with no service in them.
CallNames ==
  { externalName(s, t) : s \in ServiceNames, t \in ToolNames }
    \cup ToolNames
    \cup { <<"_", "t">>, <<"x", "_", "t">>, <<"a", "_">>, <<"a", "b">> }

VARIABLES
  backends,       \* ToolAggregator.backends: a Map, kept as its entries in insertion order
  excludedTools,  \* ToolAggregator.excludedTools: a Map name -> Set of tool names
  aggOut          \* what the last aggregator call returned or threw

aggVars == << backends, excludedTools, aggOut >>

(***************************************************************************)
(* JavaScript Map, as the sequence of its entries.                         *)
(***************************************************************************)
mapKeys(m) == { m[i].name : i \in 1..Len(m) }

mapHas(m, k) == k \in mapKeys(m)

mapGet(m, k) == (CHOOSE i \in 1..Len(m) : m[i].name = k)

\* Map.prototype.set: an existing key keeps its place, a new key goes last.
mapSet(m, k, v) ==
  IF mapHas(m, k)
  THEN [i \in 1..Len(m) |-> IF m[i].name = k THEN [name |-> k, client |-> v] ELSE m[i]]
  ELSE Append(m, [name |-> k, client |-> v])

RECURSIVE mapDelete(_, _)
mapDelete(m, k) ==
  IF m = <<>> THEN <<>>
  ELSE IF Head(m).name = k THEN Tail(m)
  ELSE <<Head(m)>> \o mapDelete(Tail(m), k)

(***************************************************************************)
(* ToolAggregator.                                                         *)
(***************************************************************************)
NoOut ==
  [op |-> "none", arg |-> <<>>, err |-> "", service |-> <<>>, client |-> "none",
   tool |-> <<>>, listing |-> <<>>, excl |-> {}]

\* (mutant) prefix as soon as there is any backend
needsPrefixAlways == Len(backends) > 0

\* get needsPrefix(): this.backends.size > 1
needsPrefix == Len(backends) > 1

\* (mutant) stop at the first underscore whose prefix is a backend
RECURSIVE scanFirstPrefix(_, _, _)
scanFirstPrefix(toolName, idx0, bestIdx) ==
  LET idx == indexOf(toolName, US, idx0) IN
  IF idx = -1 THEN bestIdx
  ELSE IF mapHas(backends, slice(toolName, 0, idx)) THEN idx
  ELSE scanFirstPrefix(toolName, idx + 1, bestIdx)

\* The while loop of parseName: every underscore position, left to right; the
\* last position whose prefix is a backend wins.
RECURSIVE scanPrefixes(_, _, _)
scanPrefixes(toolName, idx0, bestIdx) ==
  LET idx == indexOf(toolName, US, idx0) IN
  IF idx = -1 THEN bestIdx
  ELSE scanPrefixes(toolName, idx + 1,
                    IF mapHas(backends, slice(toolName, 0, idx)) THEN idx ELSE bestIdx)

\* (mutant) a name without a matching prefix goes to the first backend
parseNameFallsBack(toolName) ==
  IF backends = <<>>
  THEN [err |-> "No backends registered", service |-> <<>>, tool |-> <<>>]
  ELSE LET bestIdx == IF needsPrefix THEN scanPrefixes(toolName, 0, -1) ELSE -1 IN
       IF bestIdx # -1
       THEN [err |-> "", service |-> slice(toolName, 0, bestIdx),
             tool |-> slice(toolName, bestIdx + 1, Len(toolName))]
       ELSE [err |-> "", service |-> backends[1].name, tool |-> toolName]

parseName(toolName) ==
  IF ~needsPrefix
  THEN IF backends = <<>>
       THEN [err |-> "No backends registered", service |-> <<>>, tool |-> <<>>]
       ELSE [err |-> "", service |-> backends[1].name, tool |-> toolName]
  ELSE LET bestIdx == scanPrefixes(toolName, 0, -1) IN
       IF bestIdx # -1
       THEN [err |-> "", service |-> slice(toolName, 0, bestIdx),
             tool |-> slice(toolName, bestIdx + 1, Len(toolName))]
       ELSE [err |-> "no matching service prefix", service |-> <<>>, tool |-> <<>>]

\* The tools one backend contributes to the listing.
RECURSIVE toolsOfBackend(_, _, _)
toolsOfBackend(name, tools, prefix) ==
  IF tools = <<>> THEN <<>>
  ELSE LET tool == Head(tools)
           rest == toolsOfBackend(name, Tail(tools), prefix)
       IN IF name \in DOMAIN excludedTools /\ tool.name \in excludedTools[name]
          THEN rest
          ELSE << [name |-> IF prefix THEN externalName(name, tool.name) ELSE tool.name,
                   description |-> IF tool.description = Undefined THEN ""
                                   ELSE tool.description,
                   service |-> name,
                   originalName |-> tool.name] >> \o rest

RECURSIVE listBackends(_, _)
listBackends(entries, prefix) ==
  IF entries = <<>> THEN <<>>
  ELSE toolsOfBackend(Head(entries).name, listTools(Head(entries).client), prefix)
         \o listBackends(Tail(entries), prefix)

listAllTools ==
  /\ aggOut' = [NoOut EXCEPT !.op = "listAllTools",
                             !.listing = listBackends(backends, needsPrefix)]
  /\ UNCHANGED << backends, excludedTools >>

\* (mutant) a registration without excludeTools keeps the old exclusion
addBackendKeepsExclusion(name, client, excludeTools) ==
  /\ mapHas(backends, name) \/ Len(backends) < MaxBackends
  /\ backends' = mapSet(backends, name, client)
  /\ excludedTools' =
       IF excludeTools.given /\ excludeTools.tools # {}
       THEN [n \in DOMAIN excludedTools \cup {name} |->
               IF n = name THEN excludeTools.tools ELSE excludedTools[n]]
       ELSE excludedTools
  /\ aggOut' = [NoOut EXCEPT !.op = "addBackend", !.arg = name,
                             !.excl = excludeTools.tools]

addBackend(name, client, excludeTools) ==
  /\ mapHas(backends, name) \/ Len(backends) < MaxBackends
  /\ backends' = mapSet(backends, name, client)
  /\ excludedTools' =
       IF excludeTools.given /\ excludeTools.tools # {}
       THEN [n \in DOMAIN excludedTools \cup {name} |->
               IF n = name THEN excludeTools.tools ELSE excludedTools[n]]
       ELSE [n \in DOMAIN excludedTools \ {name} |-> excludedTools[n]]
  /\ aggOut' = [NoOut EXCEPT !.op = "addBackend", !.arg = name,
                             !.excl = excludeTools.tools]

removeBackend(name) ==
  /\ backends' = mapDelete(backends, name)
  /\ excludedTools' = [n \in DOMAIN excludedTools \ {name} |-> excludedTools[n]]
  /\ aggOut' = [NoOut EXCEPT !.op = "removeBackend", !.arg = name]

\* A router that refuses the tools the listing leaves out.
routeToolCallChecksExclusion(toolName) ==
  LET parsed == parseName(toolName) IN
  /\ aggOut' =
       IF parsed.err # ""
       THEN [NoOut EXCEPT !.op = "routeToolCall", !.arg = toolName, !.err = parsed.err]
       ELSE IF ~mapHas(backends, parsed.service)
       THEN [NoOut EXCEPT !.op = "routeToolCall", !.arg = toolName,
                          !.err = "Unknown service", !.service = parsed.service]
       ELSE IF /\ parsed.service \in DOMAIN excludedTools
               /\ parsed.tool \in excludedTools[parsed.service]
       THEN [NoOut EXCEPT !.op = "routeToolCall", !.arg = toolName,
                          !.err = "Unknown tool", !.service = parsed.service]
       ELSE [NoOut EXCEPT !.op = "routeToolCall", !.arg = toolName,
                          !.service = parsed.service,
                          !.client = backends[mapGet(backends, parsed.service)].client,
                          !.tool = parsed.tool]
  /\ UNCHANGED << backends, excludedTools >>

\* routeToolCall(toolName, args): parseName, backends.get, client.callTool.
routeToolCall(toolName) ==
  LET parsed == parseName(toolName) IN
  /\ aggOut' =
       IF parsed.err # ""
       THEN [NoOut EXCEPT !.op = "routeToolCall", !.arg = toolName, !.err = parsed.err]
       ELSE IF ~mapHas(backends, parsed.service)
       THEN [NoOut EXCEPT !.op = "routeToolCall", !.arg = toolName,
                          !.err = "Unknown service", !.service = parsed.service]
       ELSE [NoOut EXCEPT !.op = "routeToolCall", !.arg = toolName,
                          !.service = parsed.service,
                          !.client = backends[mapGet(backends, parsed.service)].client,
                          !.tool = parsed.tool]
  /\ UNCHANGED << backends, excludedTools >>

AggInit ==
  /\ backends = <<>>
  /\ excludedTools = [n \in {} |-> {}]
  /\ aggOut = NoOut

AggStep ==
  \/ \E name \in ServiceNames, client \in Clients, ex \in ExcludeArgs :
       addBackend(name, client, ex)
  \/ \E name \in ServiceNames : removeBackend(name)
  \/ listAllTools
  \/ \E toolName \in CallNames : routeToolCall(toolName)

(***************************************************************************)
(* ServiceManager (service-manager.ts).                                    *)
(*                                                                         *)
(* The runtime is one JavaScript event loop.  A call runs until its next   *)
(* await.  An await of network I/O, of a timer or of a process exit ends   *)
(* the job: the call resumes in a later job (ReuseProbe, ExternalProbe,    *)
(* ReadinessPoll, SleepDone, StopTimer, ChildExit).  An await of a promise *)
(* that is already settled, or of a call that has just returned,           *)
(* resumes in the same job, as a microtask: such a call is parked with the *)
(* number of microtask ticks it has to wait, the microtask with the fewest *)
(* ticks runs first, and no new job starts before the microtasks are done. *)
(***************************************************************************)
MaxTasks == 2   \* calls of start, stop and restart in flight at once
MaxSpawn == 3   \* processes spawned in one run
MaxCalls == 3   \* calls made from outside in one run
MaxStartAlls == 2   \* calls of startAll and stopAll in one run

SvcNames == { "s1", "s2" }

Policies == { "never", "on-failure", "always" }

\* The PID of the process another mcpd instance spawned for s1.
ExtPid == 99


VARIABLES
  services,   \* ServiceManager.services: name -> pid of the tracked child (0: no entry)
  states,     \* ServiceManager.states: name -> state ("absent": no entry)
  pids,       \* ServiceManager.pids: name -> pid (0: no entry)
  urls,       \* ServiceManager.urls: name -> whether config.url is recorded
  stateFile,  \* .mcpd-state.json: name -> [state, pid, url], absent names left out
  cfg,        \* the ServiceConfig object of each service: transport, url, restart
  procs,      \* the processes this instance spawned, by pid: [name, alive, sig]
  extAlive,   \* whether the other instance's process ExtPid is alive
  tasks,      \* the calls in flight: position (pc) and locals
  calls,      \* calls made from outside so far
  svcs,       \* the services of the configuration
  answered,   \* name -> whether the service's url has ever answered 2xx
  ev          \* what the last step returned, threw or did

supVars ==
  << services, states, pids, urls, stateFile, cfg, procs, extAlive, tasks, calls,
     svcs, answered, ev >>

\* The slots for calls in flight.
TaskIds == DOMAIN tasks

NoResults == [n \in SvcNames |-> "none"]

\* A free slot.  proc: the svc.proc a stop waits for; saved: the pid loaded
\* from the state file; mine: the pid this start spawned; reach1: the answer of
\* the first isReachable of the reuse path; recPid: pids.get(name) when stop
\* was called.
NoTask ==
  [pc |-> "free", op |-> "none", name |-> "none", parent |-> 0, tick |-> 0,
   ret |-> "none", orig |-> "none", proc |-> 0, saved |-> 0, mine |-> 0,
   via |-> "none", reach1 |-> FALSE, recPid |-> 0, err |-> "",
   results |-> NoResults,
   msgs |-> {}, since |-> 0, ord |-> 0]

NoEv ==
  [type |-> "none", name |-> "none", msg |-> "", via |-> "none", mine |-> 0,
   saved |-> 0, reach1 |-> FALSE, recPid |-> 0, results |-> NoResults,
   msgs |-> {}, pid |-> 0]

\* Positions at which a call waits for a microtask tick of the current job.
MicroPcs ==
  { "s_catch", "s_after_stop", "w_ok", "r_after_stop", "stop_tail", "stop_done",
    "all_settled", "all_rolled", "sall_done" }

\* The state of the supervisor and its surroundings as one value, so that the
\* statements of a handler compose.
Cur ==
  [services |-> services, states |-> states, pids |-> pids, urls |-> urls,
   stateFile |-> stateFile, cfg |-> cfg, procs |-> procs, tasks |-> tasks,
   ev |-> NoEv, ok |-> TRUE]

Becomes(S) ==
  /\ S.ok
  /\ services' = S.services
  /\ states' = S.states
  /\ pids' = S.pids
  /\ urls' = S.urls
  /\ stateFile' = S.stateFile
  /\ cfg' = S.cfg
  /\ procs' = S.procs
  /\ tasks' = S.tasks
  /\ ev' = S.ev

freeTask(S) ==
  IF \E t \in TaskIds : S.tasks[t].pc = "free"
  THEN CHOOSE t \in TaskIds :
         /\ S.tasks[t].pc = "free"
         /\ \A u \in TaskIds : S.tasks[u].pc = "free" => t <= u
  ELSE 0

\* pidAlive(pid): process.kill(pid, 0) succeeds.
pidAlive(S, pid) ==
  IF pid = ExtPid THEN extAlive
  ELSE pid \in 1..Len(S.procs) /\ S.procs[pid].alive

\* getState(name): this.states.get(name) ?? "stopped"
getState(S, n) == IF S.states[n] = "absent" THEN "stopped" ELSE S.states[n]

\* The names getAll() and saveState() go over: keys of services and of states.
reported(S) == { n \in SvcNames : S.services[n] # 0 \/ S.states[n] # "absent" }

\* A saveState that keeps the entries it finds in the file for the names
\* this instance does not know.
saveStateMerges(S) ==
  [S EXCEPT !.stateFile =
     [n \in reported(S) \cup DOMAIN S.stateFile |->
        IF n \in reported(S)
        THEN [state |-> getState(S, n), pid |-> S.pids[n], url |-> S.urls[n]]
        ELSE S.stateFile[n]]]

\* saveState(): the whole file is rewritten from this instance's maps.
saveState(S) ==
  [S EXCEPT !.stateFile =
     [n \in reported(S) |->
        [state |-> getState(S, n), pid |-> S.pids[n], url |-> S.urls[n]]]]

\* loadState()[name]: the entry, with pid 0 when the file has none.
loadState(S, n) ==
  IF n \in DOMAIN S.stateFile THEN S.stateFile[n]
  ELSE [state |-> "stopped", pid |-> 0, url |-> FALSE]

\* A call at position pc waits for its next microtask tick; k is the tick of
\* the code that parks it.
park(S, t, pc, k) ==
  LET Q == { S.tasks[u].ord : u \in { v \in DOMAIN S.tasks : S.tasks[v].pc \in MicroPcs } }
             \cup {0}
  IN [S EXCEPT !.tasks[t].pc = pc, !.tasks[t].tick = k + 1,
               !.tasks[t].ord = 1 + CHOOSE m \in Q : \A x \in Q : x <= m]

\* A parent whose awaited children have all settled resumes two ticks later
\* (Promise.allSettled / Promise.all, then the await).
wakeParent(S, p, k) ==
  LET tk == S.tasks[p] IN
  IF tk.pc = "all_wait" /\ \A n \in SvcNames : tk.results[n] # "pending"
  THEN park(S, p, "all_settled", k + 1)
  ELSE IF tk.pc = "all_rollback" /\ \A n \in SvcNames : tk.results[n] # "stopping"
  THEN park(S, p, "all_rolled", k + 1)
  ELSE IF tk.pc = "sall_wait" /\ \A n \in SvcNames : tk.results[n] # "stopping"
  THEN park(S, p, "sall_done", k + 1)
  ELSE S

\* The call of task t returns (ok) or throws msg.  A call awaited by startAll
\* settles its entry there; a start made by the exit handler has its error
\* swallowed (.catch(() => {})); any other call's outcome is what the caller sees.
complete(S, t, ok, msg, k) ==
  LET tk == S.tasks[t]
      freed == [S EXCEPT !.tasks[t] = NoTask]
  IN
  IF tk.parent # 0
  THEN LET p == tk.parent
           res == IF tk.op = "stop" THEN "stopped"
                  ELSE IF ok THEN "fulfilled" ELSE "rejected"
       IN wakeParent(
            [freed EXCEPT !.tasks[p].results[tk.name] = res,
                          !.tasks[p].msgs = IF ok THEN @ ELSE @ \cup {<<tk.name, msg>>}],
            p, k)
  ELSE IF tk.op = "exitStart" THEN freed
  ELSE [freed EXCEPT !.ev =
          [NoEv EXCEPT !.type = IF tk.op = "stop" THEN "stopDone"
                                ELSE IF ok THEN tk.op \o "Ok" ELSE tk.op \o "Err",
                       !.name = tk.name, !.msg = msg, !.via = tk.via,
                       !.mine = tk.mine, !.saved = tk.saved, !.reach1 = tk.reach1,
                       !.recPid = tk.recPid]]

\* stop(), after the child has exited: restore restart, clear the maps, set
\* stopped, persist, return to the caller.
stopTail(S, t, k) ==
  LET n == S.tasks[t].name IN
  park(saveState([S EXCEPT !.cfg[n].restart = S.tasks[t].orig,
                           !.services[n] = 0, !.pids[n] = 0,
                           !.states[n] = "stopped",
                           !.tasks[t].since = 0]),
       t, S.tasks[t].ret, k)

\* The calls of stop that have not resumed yet are ranked by the order in
\* which they began: their 5 s timers fire, and their continuations on the
\* child's exit run, in that order.
stopRank(S) ==
  LET R == { S.tasks[u].since : u \in DOMAIN S.tasks } IN
  1 + CHOOSE m \in R : \A x \in R : x <= m

\* A stop that leaves the restart policy in force while it waits.
stopSyncKeepsPolicy(S, t, ret, k) ==
  LET n == S.tasks[t].name
      pid == S.services[n]
  IN
  IF pid = 0 THEN park(S, t, ret, k)
  ELSE [S EXCEPT !.tasks[t].orig = S.cfg[n].restart,
                 !.procs[pid].sig = "TERM",
                 !.tasks[t].proc = pid,
                 !.tasks[t].ret = ret,
                 !.tasks[t].since = stopRank(S),
                 !.tasks[t].pc = "stop_race"]

\* stop(), up to its first await: nothing to do without a process-map entry;
\* else remember restart, set it to never, SIGTERM, race the exit against 5 s.
stopSync(S, t, ret, k) ==
  LET n == S.tasks[t].name
      pid == S.services[n]
  IN
  IF pid = 0 THEN park(S, t, ret, k)
  ELSE [S EXCEPT !.tasks[t].orig = S.cfg[n].restart,
                 !.cfg[n].restart = "never",
                 !.procs[pid].sig = "TERM",
                 !.tasks[t].proc = pid,
                 !.tasks[t].ret = ret,
                 !.tasks[t].since = stopRank(S),
                 !.tasks[t].pc = "stop_race"]

\* start(), from the process-map check on: reject when tracked; else starting,
\* spawn, record the child; with sse wait for readiness, else ready and persist.
spawnSection(S, t, k) ==
  LET n == S.tasks[t].name
      pid == Len(S.procs) + 1
      S1 == [S EXCEPT !.states[n] = "starting",
                      !.procs = Append(@, [name |-> n, alive |-> TRUE, sig |-> "none"]),
                      !.services[n] = pid,
                      !.pids[n] = pid,
                      !.tasks[t].mine = pid,
                      !.tasks[t].via = "spawn"]
  IN
  IF S.services[n] # 0 THEN complete(S, t, FALSE, "already running", k)
  ELSE IF Len(S.procs) >= MaxSpawn THEN [S EXCEPT !.ok = FALSE]
  ELSE IF S.cfg[n].transport = "sse"
  THEN IF ~S.cfg[n].url
       THEN park([S1 EXCEPT !.tasks[t].err = "no URL for readiness check"],
                 t, "s_catch", k)
       ELSE [S1 EXCEPT !.tasks[t].pc = "w_poll"]
  ELSE complete(saveState([S1 EXCEPT !.states[n] = "ready"]), t, TRUE, "", k)

\* A start that trusts the state file's pid without asking whether it is alive.
startSyncTrustsFile(S, t, k) ==
  LET n == S.tasks[t].name
      S1 == IF S.cfg[n].url THEN [S EXCEPT !.urls[n] = TRUE] ELSE S
      saved == loadState(S1, n)
  IN
  IF S.cfg[n].transport = "sse" /\ S.cfg[n].url
  THEN IF saved.pid # 0
       THEN [S1 EXCEPT !.tasks[t].saved = saved.pid, !.tasks[t].pc = "s_reuse1"]
       ELSE [S1 EXCEPT !.tasks[t].pc = "s_reuse2"]
  ELSE spawnSection(S1, t, k)

\* start(), up to its first await: record the url; with sse and a url look
\* for a running instance (state file pid alive, then reachability).
startSync(S, t, k) ==
  LET n == S.tasks[t].name
      S1 == IF S.cfg[n].url THEN [S EXCEPT !.urls[n] = TRUE] ELSE S
      saved == loadState(S1, n)
  IN
  IF S.cfg[n].transport = "sse" /\ S.cfg[n].url
  THEN IF saved.pid # 0 /\ pidAlive(S1, saved.pid)
       THEN [S1 EXCEPT !.tasks[t].saved = saved.pid, !.tasks[t].pc = "s_reuse1"]
       ELSE [S1 EXCEPT !.tasks[t].pc = "s_reuse2"]
  ELSE spawnSection(S1, t, k)

\* GET url answers 2xx only if some process serves it: a live child of this
\* instance for the service, or the other instance's process.
canReach(n) ==
  \/ n = "s1" /\ extAlive
  \/ \E p \in 1..Len(procs) : procs[p].alive /\ procs[p].name = n

\* No microtask is waiting: the current job is over and a new one may start.
JobDone == \A t \in TaskIds : tasks[t].pc \notin MicroPcs

\* Task t is the microtask to run next.
NextMicro(t, pc) ==
  /\ tasks[t].pc = pc
  /\ \A u \in TaskIds : tasks[u].pc \in MicroPcs => tasks[t].tick <= tasks[u].tick
  /\ \A u \in TaskIds : (/\ tasks[u].pc \in MicroPcs \ {"stop_tail"}
                          /\ pc # "stop_tail"
                          /\ tasks[u].tick = tasks[t].tick) => tasks[t].ord <= tasks[u].ord

newTask(S, t, op, n, parent) ==
  [S EXCEPT !.tasks[t] = [NoTask EXCEPT !.pc = "run", !.op = op, !.name = n,
                                        !.parent = parent]]

Outside == UNCHANGED << extAlive, svcs, answered >> /\ calls' = calls + 1

Inside == UNCHANGED << extAlive, svcs, calls, answered >>

\* isReachable(url) of call t answered r.
Probed(t, r) ==
  /\ UNCHANGED << extAlive, svcs, calls >>
  /\ answered' = [answered EXCEPT ![tasks[t].name] = @ \/ r]

\* manager.start(name, config) called from outside.
CallStart(n) ==
  /\ JobDone /\ calls < MaxCalls /\ n \in svcs /\ freeTask(Cur) # 0
  /\ LET t == freeTask(Cur) IN Becomes(startSync(newTask(Cur, t, "start", n, 0), t, 0))
  /\ Outside

\* manager.stop(name) called from outside.
CallStop(n) ==
  /\ JobDone /\ calls < MaxCalls /\ n \in svcs /\ freeTask(Cur) # 0
  /\ LET t == freeTask(Cur)
         S == newTask(Cur, t, "stop", n, 0)
     IN Becomes(stopSync([S EXCEPT !.tasks[t].recPid = pids[n]], t, "stop_done", 0))
  /\ Outside

\* manager.restart(name) called from outside.
CallRestart(n) ==
  /\ JobDone /\ calls < MaxCalls /\ n \in svcs /\ freeTask(Cur) # 0
  /\ LET t == freeTask(Cur)
         S == newTask(Cur, t, "restart", n, 0)
     IN Becomes(IF services[n] = 0 THEN complete(S, t, FALSE, "not running", 0)
                ELSE stopSync(S, t, "r_after_stop", 0))
  /\ Outside

\* (mutant) adoption that does not record the pid
ReuseProbeForgetsPid(t, r) ==
  /\ JobDone /\ tasks[t].pc = "s_reuse1" /\ (r => canReach(tasks[t].name))
  /\ LET n == tasks[t].name IN
     Becomes(IF r
             THEN complete(
                    saveState([Cur EXCEPT !.states[n] = "ready",
                                          !.tasks[t].via = "reuse",
                                          !.tasks[t].reach1 = TRUE]),
                    t, TRUE, "", 0)
             ELSE [Cur EXCEPT !.tasks[t].pc = "s_reuse2"])
  /\ Probed(t, r)

\* The first isReachable of start answers (state file pid was alive).
ReuseProbe(t, r) ==
  /\ JobDone /\ tasks[t].pc = "s_reuse1" /\ (r => canReach(tasks[t].name))
  /\ LET n == tasks[t].name IN
     Becomes(IF r
             THEN complete(
                    saveState([Cur EXCEPT !.pids[n] = tasks[t].saved,
                                          !.states[n] = "ready",
                                          !.tasks[t].via = "reuse",
                                          !.tasks[t].reach1 = TRUE]),
                    t, TRUE, "", 0)
             ELSE [Cur EXCEPT !.tasks[t].pc = "s_reuse2"])
  /\ Probed(t, r)

\* An external adoption that records the pid found in the state file.
ExternalProbeRecordsPid(t, r) ==
  /\ JobDone /\ tasks[t].pc = "s_reuse2" /\ (r => canReach(tasks[t].name))
  /\ LET n == tasks[t].name IN
     Becomes(IF r
             THEN complete(
                    saveState([Cur EXCEPT !.states[n] = "ready",
                                          !.pids[n] = loadState(Cur, n).pid,
                                          !.tasks[t].via = "external"]),
                    t, TRUE, "", 0)
             ELSE spawnSection(Cur, t, 0))
  /\ Probed(t, r)

\* The second isReachable of start answers.
ExternalProbe(t, r) ==
  /\ JobDone /\ tasks[t].pc = "s_reuse2" /\ (r => canReach(tasks[t].name))
  /\ LET n == tasks[t].name IN
     Becomes(IF r
             THEN complete(
                    saveState([Cur EXCEPT !.states[n] = "ready",
                                          !.tasks[t].via = "external"]),
                    t, TRUE, "", 0)
             ELSE spawnSection(Cur, t, 0))
  /\ Probed(t, r)

\* waitForReady: one isReachable answers.
ReadinessPoll(t, r) ==
  /\ JobDone /\ tasks[t].pc = "w_poll" /\ (r => canReach(tasks[t].name))
  /\ Becomes(IF r THEN park(Cur, t, "w_ok", 0)
             ELSE [Cur EXCEPT !.tasks[t].pc = "w_sleep"])
  /\ Probed(t, r)

\* waitForReady: the interval timer fires; the deadline has passed or not.
SleepDone(t, late) ==
  /\ JobDone /\ tasks[t].pc = "w_sleep"
  /\ LET n == tasks[t].name IN
     Becomes(IF late
             THEN park([Cur EXCEPT !.states[n] = "error",
                                   !.tasks[t].err = "timed out"],
                       t, "s_catch", 0)
             ELSE [Cur EXCEPT !.tasks[t].pc = "w_poll"])
  /\ Inside

\* start: waitForReady returned.
ReadyAfterWait(t) ==
  /\ NextMicro(t, "w_ok")
  /\ LET n == tasks[t].name IN
     Becomes(complete(saveState([Cur EXCEPT !.states[n] = "ready"]), t, TRUE, "",
                      tasks[t].tick))
  /\ Inside

\* (mutant) a catch block that leaves the orphan running
CatchWaitErrorNoStop(t) ==
  /\ NextMicro(t, "s_catch")
  /\ Becomes(park(Cur, t, "s_after_stop", tasks[t].tick))
  /\ Inside

\* start: waitForReady threw; stop the orphan.
CatchWaitError(t) ==
  /\ NextMicro(t, "s_catch")
  /\ Becomes(stopSync(Cur, t, "s_after_stop", tasks[t].tick))
  /\ Inside

\* start: the catch block after stop: error, persist, rethrow.
RethrowAfterStop(t) ==
  /\ NextMicro(t, "s_after_stop")
  /\ LET n == tasks[t].name IN
     Becomes(complete(saveState([Cur EXCEPT !.states[n] = "error"]), t, FALSE,
                      tasks[t].err, tasks[t].tick))
  /\ Inside

\* A stop whose timer sends SIGKILL and goes on without waiting for the exit.
StopTimerNoWait(t) ==
  /\ JobDone /\ tasks[t].pc = "stop_race"
  /\ \A u \in TaskIds : tasks[u].pc = "stop_race" => tasks[t].since <= tasks[u].since
  /\ Becomes(park([Cur EXCEPT !.procs[tasks[t].proc].sig = "KILL"], t, "stop_tail", 0))
  /\ Inside

\* stop: the 5 s timer wins the race: SIGKILL, then wait for the exit.
StopTimer(t) ==
  /\ JobDone /\ tasks[t].pc = "stop_race"
  /\ \A u \in TaskIds : tasks[u].pc = "stop_race" => tasks[t].since <= tasks[u].since
  /\ Becomes([Cur EXCEPT !.procs[tasks[t].proc].sig = "KILL",
                         !.tasks[t].pc = "stop_kill"])
  /\ Inside

\* stop: the child has exited.
StopAfterExit(t) ==
  /\ NextMicro(t, "stop_tail")
  /\ \A u \in TaskIds : (tasks[u].pc = "stop_tail" /\ tasks[u].tick = tasks[t].tick)
                          => tasks[t].since <= tasks[u].since
  /\ Becomes(stopTail(Cur, t, tasks[t].tick))
  /\ Inside

\* stop returns to a caller that is not start or restart.
StopReturns(t) ==
  /\ NextMicro(t, "stop_done")
  /\ Becomes(complete(Cur, t, TRUE, "", tasks[t].tick))
  /\ Inside

\* restart: stop returned; start.
RestartAfterStop(t) ==
  /\ NextMicro(t, "r_after_stop")
  /\ Becomes(startSync(Cur, t, tasks[t].tick))
  /\ Inside

\* this.start(name, config).catch(() => {}) from the exit handler.
triggerStart(S, n) ==
  LET t == freeTask(S) IN
  IF t = 0 THEN [S EXCEPT !.ok = FALSE]
  ELSE startSync(newTask(S, t, "exitStart", n, 0), t, 0)

\* An exit handler that marks a crashed ready service but never retries it.
onExitNeverRetries(S, n, code) ==
  LET S1 == [S EXCEPT !.services[n] = 0, !.pids[n] = 0]
      currentState == S.states[n]
      restart == S.cfg[n].restart
  IN
  IF currentState = "ready"
  THEN saveState([S1 EXCEPT !.states[n] = "error"])
  ELSE IF code = "nonzero"
  THEN LET S2 == saveState([S1 EXCEPT !.states[n] = "error"]) IN
       IF restart \in {"on-failure", "always"} THEN triggerStart(S2, n) ELSE S2
  ELSE IF restart = "always" THEN triggerStart(S1, n)
  ELSE IF currentState # "starting"
  THEN saveState([S1 EXCEPT !.states[n] = "stopped"])
  ELSE S1

\* An exit handler that does not look at the exit code.
onExitIgnoresCode(S, n, code) ==
  LET S1 == [S EXCEPT !.services[n] = 0, !.pids[n] = 0]
      currentState == S.states[n]
      restart == S.cfg[n].restart
  IN
  IF currentState = "ready"
  THEN LET S2 == saveState([S1 EXCEPT !.states[n] = "error"]) IN
       IF restart \in {"on-failure", "always"} THEN triggerStart(S2, n) ELSE S2
  ELSE IF restart = "always" THEN triggerStart(S1, n)
  ELSE IF currentState # "starting"
  THEN saveState([S1 EXCEPT !.states[n] = "stopped"])
  ELSE S1

\* The onExit callback given to Bun.spawn by start(name, config).
onExit(S, n, code) ==
  LET S1 == [S EXCEPT !.services[n] = 0, !.pids[n] = 0]
      currentState == S.states[n]
      restart == S.cfg[n].restart
  IN
  IF currentState = "ready"
  THEN LET S2 == saveState([S1 EXCEPT !.states[n] = "error"]) IN
       IF restart \in {"on-failure", "always"} THEN triggerStart(S2, n) ELSE S2
  ELSE IF code = "nonzero"
  THEN LET S2 == saveState([S1 EXCEPT !.states[n] = "error"]) IN
       IF restart \in {"on-failure", "always"} THEN triggerStart(S2, n) ELSE S2
  ELSE IF restart = "always" THEN triggerStart(S1, n)
  ELSE IF currentState # "starting"
  THEN saveState([S1 EXCEPT !.states[n] = "stopped"])
  ELSE S1

\* The calls that await the exit of process pid resume: await proc.exited one
\* tick after the exit, the Promise.race of stop three ticks after it.
wakeStops(S, pid) ==
  [S EXCEPT !.tasks =
     [t \in TaskIds |->
        IF S.tasks[t].proc = pid /\ S.tasks[t].pc = "stop_kill"
        THEN [S.tasks[t] EXCEPT !.pc = "stop_tail", !.tick = 1]
        ELSE IF S.tasks[t].proc = pid /\ S.tasks[t].pc = "stop_race"
        THEN [S.tasks[t] EXCEPT !.pc = "stop_tail", !.tick = 3]
        ELSE S.tasks[t]]]

\* A child of this instance exits with code 0, with another code, or by a
\* signal (exitCode null): the exit handler runs, then the waiting stops.
ChildExit(pid, code) ==
  /\ JobDone /\ pid \in 1..Len(procs) /\ procs[pid].alive
  /\ Becomes(wakeStops(onExit([Cur EXCEPT !.procs[pid].alive = FALSE],
                              procs[pid].name, code),
                       pid))
  /\ Inside

\* The other instance's process exits.
ExtExit ==
  /\ JobDone /\ extAlive
  /\ extAlive' = FALSE
  /\ ev' = NoEv
  /\ UNCHANGED << services, states, pids, urls, stateFile, cfg, procs, tasks, calls,
                  svcs, answered >>

\* Object.entries(config.services), in the order of the configuration.
SvcOrder == << "s1", "s2" >>

inOrder(set) == SelectSeq(SvcOrder, LAMBDA n : n \in set)

\* entries.map(([name, svc]) => this.start(name, svc)): each start runs up to
\* its first await, in order.
RECURSIVE launchStarts(_, _, _)
launchStarts(S, p, names) ==
  IF names = <<>> \/ ~S.ok THEN S
  ELSE LET t == freeTask(S) IN
       IF t = 0 THEN [S EXCEPT !.ok = FALSE]
       ELSE launchStarts(startSync(newTask(S, t, "start", Head(names), p), t, 0),
                         p, Tail(names))

\* .map(([name]) => this.stop(name)) over the fulfilled entries, in order.
RECURSIVE launchStops(_, _, _, _)
launchStops(S, p, names, k) ==
  IF names = <<>> \/ ~S.ok THEN S
  ELSE LET t == freeTask(S) IN
       IF t = 0 THEN [S EXCEPT !.ok = FALSE]
       ELSE launchStops(stopSync(newTask(S, t, "stop", Head(names), p), t,
                                 "stop_done", k),
                        p, Tail(names), k)

\* manager.startAll(config) called from outside: all starts, then allSettled.
CallStartAll ==
  /\ JobDone /\ calls < MaxStartAlls
  /\ Cardinality({t \in TaskIds : tasks[t].pc = "free"}) > Cardinality(svcs)
  /\ LET p == freeTask(Cur)
         S0 == newTask(Cur, p, "startAll", "none", 0)
         S1 == [S0 EXCEPT !.tasks[p].pc = "all_launch",
                          !.tasks[p].results =
                             [n \in SvcNames |-> IF n \in svcs THEN "pending" ELSE "none"]]
         S2 == launchStarts(S1, p, inOrder(svcs))
     IN Becomes(IF S2.ok THEN wakeParent([S2 EXCEPT !.tasks[p].pc = "all_wait"], p, 0)
                ELSE S2)
  /\ Outside

\* startAll, a start has failed: stop every fulfilled one and await them all.
rollback(S, p, k) ==
  LET fulfilled == { n \in SvcNames : S.tasks[p].results[n] = "fulfilled" }
      S1 == [S EXCEPT !.tasks[p].pc = "all_launch",
                      !.tasks[p].results =
                         [n \in SvcNames |-> IF n \in fulfilled THEN "stopping" ELSE @[n]]]
      S2 == launchStops(S1, p, inOrder(fulfilled), k)
  IN IF S2.ok THEN wakeParent([S2 EXCEPT !.tasks[p].pc = "all_rollback"], p, k)
     ELSE S2

\* startAll after allSettled: return when nothing failed, else roll back.
AllSettled(p) ==
  /\ NextMicro(p, "all_settled")
  /\ Becomes(IF \E n \in SvcNames : tasks[p].results[n] = "rejected"
             THEN rollback(Cur, p, tasks[p].tick)
             ELSE [Cur EXCEPT !.tasks[p] = NoTask,
                              !.ev = [NoEv EXCEPT !.type = "startAllOk",
                                                  !.results = tasks[p].results]])
  /\ Inside

\* startAll after the rollback: throw the error that names each failure.
AllRolledBack(p) ==
  /\ NextMicro(p, "all_rolled")
  /\ Becomes([Cur EXCEPT !.tasks[p] = NoTask,
                         !.ev = [NoEv EXCEPT !.type = "startAllErr",
                                             !.msg = "Failed to start services",
                                             !.results = tasks[p].results,
                                             !.msgs = tasks[p].msgs]])
  /\ Inside

(***************************************************************************)
(* Initial states: a fresh ServiceManager; any configuration; the state     *)
(* file empty or left by another instance with its child's pid.            *)
(***************************************************************************)
\* The configurations of a service: a url is given for sse services only,
\* and may be left out.
Configs ==
  { c \in [transport : {"sse", "stdio"}, url : BOOLEAN, restart : Policies] :
      c.transport = "stdio" => ~c.url }

DefaultConfig == [transport |-> "sse", url |-> TRUE, restart |-> "on-failure"]

OtherInstanceFile ==
  [n \in {"s1"} |-> [state |-> "ready", pid |-> ExtPid, url |-> TRUE]]

EmptyFile == [n \in {} |-> [state |-> "stopped", pid |-> 0, url |-> FALSE]]

SupInitFresh ==
  /\ services = [n \in SvcNames |-> 0]
  /\ states = [n \in SvcNames |-> "absent"]
  /\ pids = [n \in SvcNames |-> 0]
  /\ urls = [n \in SvcNames |-> FALSE]
  /\ procs = <<>>
  /\ calls = 0
  /\ answered = [n \in SvcNames |-> FALSE]
  /\ ev = NoEv

\* The supervisor at rest, while the aggregator is looked at.
SupIdle ==
  /\ SupInitFresh
  /\ tasks = [t \in 1..MaxTasks |-> NoTask]
  /\ svcs = {"s1"}
  /\ cfg = [n \in SvcNames |-> DefaultConfig]
  /\ extAlive = FALSE
  /\ stateFile = EmptyFile

\* One configured service, any calls on it.
SupInit ==
  /\ SupInitFresh
  /\ tasks = [t \in 1..MaxTasks |-> NoTask]
  /\ svcs = {"s1"}
  /\ \E c \in Configs : cfg = [n \in SvcNames |-> IF n = "s1" THEN c ELSE DefaultConfig]
  /\ extAlive \in BOOLEAN
  /\ stateFile \in {EmptyFile, OtherInstanceFile}

\* Two configured services, started together: the calls of start in flight
\* and the call of startAll that awaits them.
AllInit ==
  /\ SupInitFresh
  /\ tasks = [t \in 1..(MaxTasks + 1) |-> NoTask]
  /\ svcs = SvcNames
  /\ cfg \in [SvcNames -> Configs]
  /\ extAlive \in BOOLEAN
  /\ stateFile \in {EmptyFile, OtherInstanceFile}

\* cleanupState(): the state file is unlinked; loadState reads a missing
\* file as {}.
cleanupState(S) == [S EXCEPT !.stateFile = EmptyFile]

\* manager.stopAll() called from outside: a stop for every key of the
\* process map, in the Map's order, then Promise.all.
CallStopAll ==
  /\ JobDone /\ calls < MaxStartAlls
  /\ Cardinality({t \in TaskIds : tasks[t].pc = "free"}) > Cardinality(svcs)
  /\ LET keys == { n \in SvcNames : services[n] # 0 } IN
     \E order \in { q \in [1..Cardinality(keys) -> keys] :
                      \A i, j \in DOMAIN q : i # j => q[i] # q[j] } :
       LET p == freeTask(Cur)
           S0 == newTask(Cur, p, "stopAll", "none", 0)
           S1 == [S0 EXCEPT !.tasks[p].pc = "all_launch",
                            !.tasks[p].results =
                               [n \in SvcNames |-> IF n \in keys THEN "stopping" ELSE "none"]]
           S2 == launchStops(S1, p, order, 0)
       IN Becomes(IF S2.ok THEN wakeParent([S2 EXCEPT !.tasks[p].pc = "sall_wait"], p, 0)
                  ELSE S2)
  /\ Outside

\* stopAll after every stop has returned: cleanupState, return.
StopAllDone(p) ==
  /\ NextMicro(p, "sall_done")
  /\ Becomes([cleanupState(Cur) EXCEPT !.tasks[p] = NoTask,
                                       !.ev = [NoEv EXCEPT !.type = "stopAllDone"]])
  /\ Inside

\* What every call in flight may do next, and what its processes may do.
SupInside ==
  \/ \E t \in TaskIds, r \in BOOLEAN : ReuseProbe(t, r)
  \/ \E t \in TaskIds, r \in BOOLEAN : ExternalProbe(t, r)
  \/ \E t \in TaskIds, r \in BOOLEAN : ReadinessPoll(t, r)
  \/ \E t \in TaskIds, late \in BOOLEAN : SleepDone(t, late)
  \/ \E t \in TaskIds : ReadyAfterWait(t)
  \/ \E t \in TaskIds : CatchWaitError(t)
  \/ \E t \in TaskIds : RethrowAfterStop(t)
  \/ \E t \in TaskIds : StopTimer(t)
  \/ \E t \in TaskIds : StopAfterExit(t)
  \/ \E t \in TaskIds : StopReturns(t)
  \/ \E pid \in 1..MaxSpawn, code \in {"zero", "nonzero", "null"} : ChildExit(pid, code)
  \/ ExtExit

SupStep ==
  \/ \E n \in SvcNames : CallStart(n)
  \/ \E n \in SvcNames : CallStop(n)
  \/ \E n \in SvcNames : CallRestart(n)
  \/ \E t \in TaskIds : RestartAfterStop(t)
  \/ SupInside

AllStep ==
  \/ CallStartAll
  \/ \E p \in TaskIds : AllSettled(p)
  \/ \E p \in TaskIds : AllRolledBack(p)
  \/ SupInside

StopAllStep ==
  \/ AllStep
  \/ CallStopAll
  \/ \E p \in TaskIds : StopAllDone(p)

(***************************************************************************)
(* The stdio-to-SSE proxy (startProxy).  Every SSE session has its own MCP *)
(* server whose handlers forward to the one client of the stdio backend.   *)
(* The SDK is taken by its contract: the client numbers its requests and   *)
(* resolves the call whose number a response carries; a session's server   *)
(* answers a request on its own transport under the request's JSON-RPC id. *)
(***************************************************************************)
MaxSessions == 2   \* SSE sessions opened in one run
MaxRequests == 3   \* tools/call requests posted in one run

\* The JSON-RPC ids a session's client gives its requests.
RequestIds == { 1, 2 }

\* The calls the sessions' clients make: name and argument.
ToolCalls == { << "echo", "from-1" >>, << "greet", "Client2" >> }

\* What the backend answers to tools/call: echo returns its message, greet
\* greets the name.
toolResult(tool, arg) == IF tool = "echo" THEN << arg >> ELSE << "Hello, ", arg, "!" >>

VARIABLES
  sessions,       \* the keys of the sessions Map: the open sessions' ids
  opened,         \* sessions opened so far; ids are never reused
  clientNext,     \* the shared client's next request number
  clientPending,  \* the shared client's calls in flight: number, session, rpc id
  backendIn,      \* requests the backend has received and not answered
  issued,         \* every tools/call a session's client has posted and had accepted
  inbox,          \* responses written to the sessions' SSE streams
  httpOut         \* the status of the last HTTP response

proxyVars ==
  << sessions, opened, clientNext, clientPending, backendIn, issued, inbox, httpOut >>

ProxyInit ==
  /\ sessions = {}
  /\ opened = 0
  /\ clientNext = 0
  /\ clientPending = {}
  /\ backendIn = {}
  /\ issued = {}
  /\ inbox = {}
  /\ httpOut = 0

\* GET /sse: a new transport with a fresh session id, kept in the Map, and a
\* server of its own connected to it.
GetSse ==
  /\ opened < MaxSessions
  /\ opened' = opened + 1
  /\ sessions' = sessions \cup { opened + 1 }
  /\ httpOut' = 200
  /\ UNCHANGED << clientNext, clientPending, backendIn, issued, inbox >>

\* (mutant) an onclose that empties the Map
SessionClosedAll(sid) ==
  /\ sid \in sessions
  /\ sessions' = {}
  /\ httpOut' = 0
  /\ UNCHANGED << opened, clientNext, clientPending, backendIn, issued, inbox >>

\* transport.onclose: the session leaves the Map.
SessionClosed(sid) ==
  /\ sid \in sessions
  /\ sessions' = sessions \ { sid }
  /\ httpOut' = 0
  /\ UNCHANGED << opened, clientNext, clientPending, backendIn, issued, inbox >>

\* client.callTool from the handler of session sid's server: the request goes
\* to the backend under the client's next number.
callTool(sid, rid, tool, arg) ==
  /\ clientNext' = clientNext + 1
  /\ clientPending' = clientPending \cup { [id |-> clientNext, sess |-> sid, rid |-> rid] }
  /\ backendIn' = backendIn \cup { [id |-> clientNext, tool |-> tool, arg |-> arg] }

\* (mutant) POST /message handed to the newest session, whatever its sessionId
PostMessageToNewest(sid, rid, tool, arg) ==
  /\ Cardinality(issued) < MaxRequests
  /\ sid \in 0..MaxSessions
  /\ \A r \in issued : ~(r.sess = sid /\ r.rid = rid)
  /\ IF sessions = {}
     THEN /\ httpOut' = 404
          /\ UNCHANGED << clientNext, clientPending, backendIn, issued >>
     ELSE /\ httpOut' = 202
          /\ issued' = issued \cup { [sess |-> sid, rid |-> rid, tool |-> tool, arg |-> arg] }
          /\ callTool(CHOOSE m \in sessions : \A o \in sessions : o <= m, rid, tool, arg)
  /\ UNCHANGED << sessions, opened, inbox >>

\* POST /message?sessionId=sid (0: no sessionId) carrying tools/call with
\* JSON-RPC id rid: 404 unless the Map has the session, else its transport
\* hands the request to its server, whose handler forwards it.
PostMessage(sid, rid, tool, arg) ==
  /\ Cardinality(issued) < MaxRequests
  /\ sid \in 0..MaxSessions
  /\ \A r \in issued : ~(r.sess = sid /\ r.rid = rid)
  /\ IF sid \notin sessions
     THEN /\ httpOut' = 404
          /\ UNCHANGED << clientNext, clientPending, backendIn, issued >>
     ELSE /\ httpOut' = 202
          /\ issued' = issued \cup { [sess |-> sid, rid |-> rid, tool |-> tool, arg |-> arg] }
          /\ callTool(sid, rid, tool, arg)
  /\ UNCHANGED << sessions, opened, inbox >>

\* The backend answers one of its requests, in any order: the client resolves
\* the call of that number, the handler returns, and the session's server
\* writes the response to its own stream if that is still open.
BackendAnswers(q) ==
  /\ q \in backendIn
  /\ backendIn' = backendIn \ { q }
  /\ LET call == CHOOSE c \in clientPending : c.id = q.id IN
     /\ clientPending' = clientPending \ { call }
     /\ inbox' = IF call.sess \in sessions
                 THEN inbox \cup { [sess |-> call.sess, rid |-> call.rid,
                                    result |-> toolResult(q.tool, q.arg)] }
                 ELSE inbox
  /\ httpOut' = 0
  /\ UNCHANGED << sessions, opened, clientNext, issued >>

ProxyStep ==
  \/ GetSse
  \/ \E sid \in 1..MaxSessions : SessionClosed(sid)
  \/ \E sid \in 0..MaxSessions, rid \in RequestIds, call \in ToolCalls :
       PostMessage(sid, rid, call[1], call[2])
  \/ \E q \in backendIn : BackendAnswers(q)

(***************************************************************************)
(* The life of the proxy: the backend child exits and is reconnected, the  *)
(* proxy shuts down.                                                       *)
(***************************************************************************)
MaxAttempts == 7   \* consecutive failed reconnect attempts in one run
MaxPosts == 1      \* requests posted while the life of the proxy is looked at

FirstDelayMs == 1000

MAX_DELAY == 30000

VARIABLES
  proxyRestart,  \* opts.restart
  transports,    \* the SSE transports that are open
  backend,       \* "up": the client's stdio transport is connected to a live child
  handlerOn,     \* the restart handler is the onclose of the client's transport
  recon,         \* the reconnect in progress: [phase, delay]
  attempts,      \* reconnect attempts scheduled since the last backend exit
  cleaningUp,    \* the flag of cleanup
  cleanupPc,     \* where cleanup is waiting
  shutdownLog,   \* the steps of cleanup done so far, in order
  listening,     \* the HTTP server accepts connections
  stateEntry,    \* the proxy's entry is in the state file
  exited,        \* process.exit(0) was called
  pev            \* what the last step was

lifeVars ==
  << proxyRestart, transports, backend, handlerOn, recon, attempts, cleaningUp,
     cleanupPc, shutdownLog, listening, stateEntry, exited, pev >>

NoRecon == [phase |-> "idle", delay |-> 0]

NoPev == [type |-> "none", sid |-> 0, ok |-> FALSE]

\* The proxy after startProxy has returned, with the given restart option.
LifeStarted(restart) ==
  /\ proxyRestart = restart
  /\ transports = {}
  /\ backend = "up"
  /\ handlerOn = TRUE
  /\ recon = NoRecon
  /\ attempts = 0
  /\ cleaningUp = FALSE
  /\ cleanupPc = "none"
  /\ shutdownLog = << >>
  /\ listening = TRUE
  /\ stateEntry = TRUE
  /\ exited = FALSE
  /\ pev = NoPev

LifeInit == \E r \in Policies : LifeStarted(r)

LifeIdle == LifeStarted("on-failure")

\* The part of the state the handlers below read and write, as one value.
Life ==
  [sessions |-> sessions, transports |-> transports, backend |-> backend,
   handlerOn |-> handlerOn, recon |-> recon, attempts |-> attempts,
   cleaningUp |-> cleaningUp, cleanupPc |-> cleanupPc, shutdownLog |-> shutdownLog,
   listening |-> listening, stateEntry |-> stateEntry, exited |-> exited,
   pev |-> NoPev]

LifeBecomes(L) ==
  /\ sessions' = L.sessions
  /\ transports' = L.transports
  /\ backend' = L.backend
  /\ handlerOn' = L.handlerOn
  /\ recon' = L.recon
  /\ attempts' = L.attempts
  /\ cleaningUp' = L.cleaningUp
  /\ cleanupPc' = L.cleanupPc
  /\ shutdownLog' = L.shutdownLog
  /\ listening' = L.listening
  /\ stateEntry' = L.stateEntry
  /\ exited' = L.exited
  /\ pev' = L.pev
  /\ UNCHANGED << proxyRestart, opened, clientNext, clientPending, backendIn, issued,
                  inbox, httpOut >>

\* attemptReconnect(delayMs): a timer of delayMs.
attemptReconnect(L, delayMs) ==
  [L EXCEPT !.recon = [phase |-> "timer", delay |-> delayMs], !.attempts = @ + 1]

RECURSIVE cleanup(_)
RECURSIVE clientClose(_)
RECURSIVE onBackendClose(_)

\* The loop of cleanup over the sessions Map: close the next transport (its
\* onclose takes it out of the Map) and wait; after the last one close the
\* backend client and wait.
closeSessions(L) ==
  IF L.sessions # {}
  THEN LET sid == CHOOSE m \in L.sessions : \A o \in L.sessions : m <= o IN
       [L EXCEPT !.transports = @ \ { sid }, !.sessions = @ \ { sid },
                 !.cleanupPc = "sessions"]
  ELSE clientClose([L EXCEPT !.shutdownLog = Append(@, "client"),
                             !.cleanupPc = "client"])

\* (mutant) cleanup without its cleaningUp guard
cleanupRepeats(L) ==
  closeSessions([L EXCEPT !.cleaningUp = TRUE,
                          !.shutdownLog = Append(@, "sessions")])

\* cleanup(): once only; close the sessions, the client, the listener, remove
\* the state entry, exit.
cleanup(L) ==
  IF L.cleaningUp THEN L
  ELSE closeSessions([L EXCEPT !.cleaningUp = TRUE,
                               !.shutdownLog = Append(@, "sessions")])

\* (mutant) a restart handler that reconnects under every policy
onBackendCloseReconnects(L) ==
  attemptReconnect([L EXCEPT !.attempts = 0], FirstDelayMs)

\* The onclose that attachRestartHandler gives the client's transport.
onBackendClose(L) ==
  IF proxyRestart = "never" THEN cleanup(L)
  ELSE attemptReconnect([L EXCEPT !.attempts = 0], FirstDelayMs)

\* The client's transport closes: its onclose, if it is the restart handler.
transportClosed(L) ==
  LET L1 == [L EXCEPT !.backend = "down", !.handlerOn = FALSE] IN
  IF L.handlerOn THEN onBackendClose(L1) ELSE L1

\* client.close(): closes the transport if it is open.
clientClose(L) == IF L.backend = "up" THEN transportClosed(L) ELSE L

\* SIGTERM or SIGINT.
Signal ==
  /\ ~exited
  /\ LifeBecomes(cleanup([Life EXCEPT !.pev.type = "signal"]))

\* The backend child exits: its transport closes.
BackendExit ==
  /\ ~exited /\ backend = "up"
  /\ LifeBecomes(transportClosed([Life EXCEPT !.pev.type = "backendExit"]))

\* The timer of attemptReconnect fires: a new transport, client.connect.
ReconnectTimer ==
  /\ ~exited /\ recon.phase = "timer"
  /\ LifeBecomes([Life EXCEPT !.recon.phase = "connecting", !.pev.type = "attempt"])

\* (mutant) a reconnect that does not attach the handler to the new transport
ConnectDoneNoHandler(ok) ==
  /\ ~exited /\ recon.phase = "connecting"
  /\ ok \/ attempts < MaxAttempts
  /\ LET L == [Life EXCEPT !.recon = NoRecon, !.pev.type = "connect", !.pev.ok = ok] IN
     LifeBecomes(
       IF ok THEN [L EXCEPT !.backend = "up"]
       ELSE IF proxyRestart = "on-failure" THEN cleanup(L)
       ELSE IF proxyRestart = "always"
       THEN attemptReconnect(L, IF recon.delay * 2 < MAX_DELAY THEN recon.delay * 2
                                ELSE MAX_DELAY)
       ELSE L)

\* (mutant) a retry that doubles the delay without the cap
ConnectDoneNoCap(ok) ==
  /\ ~exited /\ recon.phase = "connecting"
  /\ ok \/ attempts < MaxAttempts
  /\ LET L == [Life EXCEPT !.recon = NoRecon, !.pev.type = "connect", !.pev.ok = ok] IN
     LifeBecomes(
       IF ok THEN [L EXCEPT !.backend = "up", !.handlerOn = TRUE]
       ELSE IF proxyRestart = "on-failure" THEN cleanup(L)
       ELSE IF proxyRestart = "always" THEN attemptReconnect(L, recon.delay * 2)
       ELSE L)

\* client.connect(newTransport) settles: attach the handler, or give up under
\* on-failure, or retry under always with twice the delay, 30 s at most.
ConnectDone(ok) ==
  /\ ~exited /\ recon.phase = "connecting"
  /\ ok \/ attempts < MaxAttempts
  /\ LET L == [Life EXCEPT !.recon = NoRecon, !.pev.type = "connect", !.pev.ok = ok] IN
     LifeBecomes(
       IF ok THEN [L EXCEPT !.backend = "up", !.handlerOn = TRUE]
       ELSE IF proxyRestart = "on-failure" THEN cleanup(L)
       ELSE IF proxyRestart = "always"
       THEN attemptReconnect(L, IF recon.delay * 2 < MAX_DELAY THEN recon.delay * 2
                                ELSE MAX_DELAY)
       ELSE L)

\* cleanup resumes after an await.
CleanupStep ==
  /\ ~exited /\ cleanupPc \in {"sessions", "client", "remove"}
  /\ LET L == [Life EXCEPT !.pev.type = "cleanup"] IN
     LifeBecomes(
       IF cleanupPc = "sessions" THEN closeSessions(L)
       ELSE IF cleanupPc = "client"
       THEN [L EXCEPT !.listening = FALSE,
                      !.shutdownLog = Append(@, "listener"),
                      !.cleanupPc = "remove"]
       ELSE [L EXCEPT !.stateEntry = FALSE,
                      !.shutdownLog = Append(Append(@, "entry"), "exit"),
                      !.exited = TRUE,
                      !.cleanupPc = "done"])

\* GET /sse while the proxy listens.
LifeGetSse ==
  /\ ~exited /\ listening
  /\ GetSse
  /\ transports' = transports \cup { opened + 1 }
  /\ pev' = [NoPev EXCEPT !.type = "sse", !.sid = opened + 1]
  /\ UNCHANGED << proxyRestart, backend, handlerOn, recon, attempts, cleaningUp,
                  cleanupPc, shutdownLog, listening, stateEntry, exited >>

\* An SSE transport closes (the client went away): its onclose runs.
TransportCloses(sid) ==
  /\ ~exited /\ sid \in transports
  /\ SessionClosed(sid)
  /\ transports' = transports \ { sid }
  /\ pev' = [NoPev EXCEPT !.type = "close", !.sid = sid]
  /\ UNCHANGED << proxyRestart, backend, handlerOn, recon, attempts, cleaningUp,
                  cleanupPc, shutdownLog, listening, stateEntry, exited >>

\* POST /message while the proxy listens.
LifePost(sid, rid, tool, arg) ==
  /\ ~exited /\ listening
  /\ Cardinality(issued) < MaxPosts
  /\ PostMessage(sid, rid, tool, arg)
  /\ pev' = [NoPev EXCEPT !.type = "post", !.sid = sid]
  /\ UNCHANGED << proxyRestart, transports, backend, handlerOn, recon, attempts,
                  cleaningUp, cleanupPc, shutdownLog, listening, stateEntry, exited >>

LifeStep ==
  \/ Signal
  \/ BackendExit
  \/ ReconnectTimer
  \/ \E ok \in BOOLEAN : ConnectDone(ok)
  \/ CleanupStep
  \/ LifeGetSse
  \/ \E sid \in 1..MaxSessions : TransportCloses(sid)
  \/ \E sid \in 0..MaxSessions, rid \in RequestIds, call \in ToolCalls :
       LifePost(sid, rid, call[1], call[2])

(***************************************************************************)
(* The daemon's shutdown: cleanup of cmdStart.  Every configured service   *)
(* has a connected BackendClient.  An sse service runs in a child of the   *)
(* ServiceManager or in a process the manager found running; a stdio       *)
(* service runs in the child of its client's StdioClientTransport.         *)
(***************************************************************************)
VARIABLES dcfg, downer, dalive, dclients, dpc, dterminated, dstopped

daemonVars == << dcfg, downer, dalive, dclients, dpc, dterminated, dstopped >>

DaemonConfigs == [SvcNames -> [transport : {"sse", "stdio"}, keep_alive : BOOLEAN]]

DaemonStarted(c, o) ==
  /\ dcfg = c
  /\ downer = o
  /\ dalive = SvcNames
  /\ dclients = SvcNames
  /\ dpc = "serving"
  /\ dterminated = {}
  /\ dstopped = {}

\* After cmdStart: startAll has spawned or adopted the sse services, and
\* connectStdio has spawned the stdio ones.
DaemonInit ==
  \E c \in DaemonConfigs, o \in [SvcNames -> {"manager", "external", "transport"}] :
    /\ \A n \in SvcNames : (o[n] = "transport") <=> (c[n].transport = "stdio")
    /\ DaemonStarted(c, o)

DaemonIdle ==
  DaemonStarted([n \in SvcNames |-> [transport |-> "sse", keep_alive |-> TRUE]],
                [n \in SvcNames |-> "manager"])

\* SIGTERM or SIGINT: cleanup starts, and calls disconnect on every client.
DaemonSignal ==
  /\ dpc = "serving"
  /\ dpc' = "disconnecting"
  /\ UNCHANGED << dcfg, downer, dalive, dclients, dterminated, dstopped >>

\* disconnect() of one client: client.close() closes the transport; closing a
\* StdioClientTransport terminates the child it spawned.
Disconnect(n) ==
  /\ dpc = "disconnecting"
  /\ n \in dclients
  /\ dclients' = dclients \ { n }
  /\ IF dcfg[n].transport = "stdio"
     THEN dalive' = dalive \ { n } /\ dterminated' = dterminated \cup { n }
     ELSE UNCHANGED << dalive, dterminated >>
  /\ UNCHANGED << dcfg, downer, dpc, dstopped >>

\* After every disconnect has settled: manager.stop(name) for each service
\* without keep_alive (it signals the child the manager holds for that name,
\* and returns at once when it holds none), then the pid file is removed and
\* the daemon exits.
StopLoopAndExit ==
  /\ dpc = "disconnecting"
  /\ dclients = {}
  /\ LET called == { n \in SvcNames : ~dcfg[n].keep_alive }
         killed == { n \in called : downer[n] = "manager" /\ n \in dalive }
     IN /\ dstopped' = called
        /\ dterminated' = dterminated \cup killed
        /\ dalive' = dalive \ killed
  /\ dpc' = "exited"
  /\ UNCHANGED << dcfg, downer, dclients >>

DaemonStep ==
  \/ DaemonSignal
  \/ \E n \in SvcNames : Disconnect(n)
  \/ StopLoopAndExit

(***************************************************************************)
(* The state file as text: saveState, JSON, loadState.  A JavaScript value *)
(* is [t, v] with t one of "str", "num", "undef"; an object is a sequence  *)
(* of members [key, val] in insertion order.  The JSON text is the         *)
(* sequence of its members, a primitive written as [quoted, chars].        *)
(***************************************************************************)
VARIABLES sfM, sfFile, sfLoaded

sfVars == << sfM, sfFile, sfLoaded >>

MaxPid == 2

jsStr(x) == [t |-> "str", v |-> x]

jsUndef == [t |-> "undef", v |-> ""]

PidValues == { jsUndef } \cup { [t |-> "num", v |-> ToString(p)] : p \in 1..MaxPid }

UrlValues == { jsUndef, jsStr("http://h/sse") }

StateValues == { "stopped", "starting", "ready", "error" }

\* The sequences without repetition over a set of names: the key orders of a Map.
KeyOrders(S) ==
  { q \in UNION { [1..k -> S] : k \in 0..Cardinality(S) } :
      \A i, j \in 1..Len(q) : i # j => q[i] # q[j] }

\* The maps of a ServiceManager: services (its keys), states, pids, urls.
ManagerMaps ==
  { [services |-> sv, states |-> [i \in 1..Len(ord) |-> [key |-> ord[i], val |-> jsStr(st[ord[i]])]],
     pids |-> pd, urls |-> ur] :
      sv \in KeyOrders(SvcNames), ord \in KeyOrders(SvcNames),
      st \in [SvcNames -> StateValues], pd \in [SvcNames -> PidValues],
      ur \in [SvcNames -> UrlValues] }

\* obj[key], undefined when the object has no such member.
member(obj, key) ==
  IF \E i \in 1..Len(obj) : obj[i].key = key
  THEN obj[CHOOSE i \in 1..Len(obj) : obj[i].key = key].val
  ELSE jsUndef

\* new Set([...services.keys(), ...states.keys()]): first occurrences, in order.
allNames(M) ==
  LET both == M.services \o [i \in 1..Len(M.states) |-> M.states[i].key]
      first(i) == \A j \in 1..(i - 1) : both[j] # both[i]
      RECURSIVE pick(_)
      pick(i) == IF i > Len(both) THEN <<>>
                 ELSE (IF first(i) THEN << both[i] >> ELSE <<>>) \o pick(i + 1)
  IN pick(1)

\* getAll(): name, state, pid, url of every name in services or states.
getAll(M) ==
  LET all == allNames(M) IN
  [i \in 1..Len(all) |->
     [name |-> all[i],
      state |-> LET st == member(M.states, all[i]) IN
                IF st = jsUndef THEN jsStr("stopped") ELSE st,
      pid |-> M.pids[all[i]],
      url |-> M.urls[all[i]]]]

\* (mutant) a serialiser that writes an undefined member as null
JSONstringifyNulls(obj) ==
  [i \in 1..Len(obj) |->
     [key |-> obj[i].key,
      val |-> [k \in 1..Len(obj[i].val) |->
                 [key |-> obj[i].val[k].key,
                  val |-> [quoted |-> obj[i].val[k].val.t = "str",
                           chars |-> IF obj[i].val[k].val.t = "undef" THEN "null"
                                     ELSE obj[i].val[k].val.v]]]]]

\* JSON.stringify of an object of objects of primitives: a member whose value
\* is undefined is left out, a string is quoted, a number is its digits.
JSONstringify(obj) ==
  [i \in 1..Len(obj) |->
     [key |-> obj[i].key,
      val |-> LET info == SelectSeq(obj[i].val, LAMBDA m : m.val.t # "undef") IN
              [k \in 1..Len(info) |->
                 [key |-> info[k].key,
                  val |-> [quoted |-> info[k].val.t = "str", chars |-> info[k].val.v]]]]]

\* JSON.parse of such a text.
JSONparse(text) ==
  [i \in 1..Len(text) |->
     [key |-> text[i].key,
      val |-> [k \in 1..Len(text[i].val) |->
                 [key |-> text[i].val[k].key,
                  val |-> IF text[i].val[k].val.quoted
                          THEN jsStr(text[i].val[k].val.chars)
                          ELSE IF text[i].val[k].val.chars = "null"
                               THEN [t |-> "null", v |-> ""]
                               ELSE [t |-> "num", v |-> text[i].val[k].val.chars]]]]]

NoFile == [exists |-> FALSE, text |-> << >>]

NotLoaded == [done |-> FALSE, obj |-> << >>]

\* saveState(): state[name] = {state, pid, url} for every name, then
\* writeFileSync(STATE_FILE, JSON.stringify(state)).
saveStateFile(M) ==
  LET all == getAll(M)
      state == [i \in 1..Len(all) |->
                  [key |-> all[i].name,
                   val |-> << [key |-> "state", val |-> all[i].state],
                              [key |-> "pid", val |-> all[i].pid],
                              [key |-> "url", val |-> all[i].url] >>]]
  IN [exists |-> TRUE, text |-> JSONstringify(state)]

\* loadState(): {} without a file, else result[name] = {name, ...info} for
\* every entry of the parsed text.
loadStateFile(file) ==
  IF ~file.exists THEN << >>
  ELSE LET raw == JSONparse(file.text) IN
       [i \in 1..Len(raw) |->
          [key |-> raw[i].key,
           val |-> << [key |-> "name", val |-> jsStr(raw[i].key)] >> \o raw[i].val]]

SfIdle == sfM = CHOOSE M \in ManagerMaps : M.services = << >> /\ M.states = << >>
                  /\ \A n \in SvcNames : M.pids[n] = jsUndef /\ M.urls[n] = jsUndef

SfAtRest == SfIdle /\ sfFile = NoFile /\ sfLoaded = NotLoaded

SfInit == sfM \in ManagerMaps /\ sfFile = NoFile /\ sfLoaded = NotLoaded

SfSave ==
  /\ sfFile' = saveStateFile(sfM)
  /\ sfLoaded' = NotLoaded
  /\ UNCHANGED sfM

\* cleanupState(): the file is unlinked.
SfUnlink ==
  /\ sfFile.exists
  /\ sfFile' = NoFile
  /\ sfLoaded' = NotLoaded
  /\ UNCHANGED sfM

SfLoad ==
  /\ sfLoaded' = [done |-> TRUE, obj |-> loadStateFile(sfFile)]
  /\ UNCHANGED << sfM, sfFile >>

SfStep == SfSave \/ SfUnlink \/ SfLoad

(***************************************************************************)
(* Middleware (middleware.ts).  A response function is any function of the *)
(* tool name and the result; a result is kept as the sequence of the       *)
(* response calls it went through, so that two results are equal exactly   *)
(* when the same functions were applied in the same order.                 *)
(***************************************************************************)
VARIABLES mwIn, mwOut

mwVars == << mwIn, mwOut >>

MaxPipeline == 3

Responses == { "f", "g" }

\* McpMiddleware: response is optional.
Middlewares == [response : Responses \cup { Undefined }]

Pipelines == UNION { [1..k -> Middlewares] : k \in 0..MaxPipeline }

\* mw.response(toolName, current)
response(fn, toolName, current) == Append(current, << fn, toolName >>)

\* (mutant) the loop ends at the first middleware without a response
RECURSIVE applyMiddlewareStops(_, _, _)
applyMiddlewareStops(middlewares, toolName, result) ==
  IF middlewares = << >> \/ Head(middlewares).response = Undefined THEN result
  ELSE applyMiddlewareStops(Tail(middlewares), toolName,
                            response(Head(middlewares).response, toolName, result))

RECURSIVE applyMiddleware(_, _, _)
applyMiddleware(middlewares, toolName, result) ==
  IF middlewares = << >> THEN result
  ELSE LET mw == Head(middlewares)
           current == IF mw.response # Undefined
                      THEN response(mw.response, toolName, result)
                      ELSE result
       IN applyMiddleware(Tail(middlewares), toolName, current)

\* A response function that throws instead of returning a result.
Throwing == "boom"

\* applyMiddleware has no try: the loop ends with the exception of the first
\* response function that throws.
applyMiddlewareThrows(middlewares) ==
  \E i \in DOMAIN middlewares : middlewares[i].response = Throwing

NoMwOut == [done |-> FALSE, result |-> << >>]

MwInit ==
  /\ mwIn \in [middlewares : Pipelines, toolName : { "t", "a_t" },
               result : { << >>, << << "backend", "t" >> >> }]
  /\ mwOut = NoMwOut

MwIdle ==
  /\ mwIn = [middlewares |-> << >>, toolName |-> "t", result |-> << >>]
  /\ mwOut = NoMwOut

MwApply ==
  /\ ~mwOut.done
  /\ mwOut' = [done |-> TRUE,
               result |-> applyMiddleware(mwIn.middlewares, mwIn.toolName, mwIn.result)]
  /\ UNCHANGED mwIn

(***************************************************************************)
(* The front server (server.ts): the CallTool handler over the aggregator  *)
(* and the serviceMiddlewares Map that cmdStart filled.                    *)
(***************************************************************************)
VARIABLES serviceMiddlewares, frontOut

frontVars == << serviceMiddlewares, frontOut >>

\* The chains a service may be configured with: its own middleware, alone or
\* before one without response and one that other services use too.
ChainsOf(s) ==
  LET own == [response |-> IF s = <<"a">> THEN "only-a"
                           ELSE IF s = <<"b">> THEN "only-b" ELSE "only-a_b"]
  IN { << own >>, << own, [response |-> Undefined], [response |-> "f"] >>,
       << own, [response |-> Throwing], [response |-> "f"] >> }

\* serviceMiddlewares after cmdStart: an entry for the services with
\* middleware.response in their configuration.
ServiceMiddlewareMaps ==
  UNION { { m \in [D -> UNION { ChainsOf(s) : s \in D }] : \A s \in D : m[s] \in ChainsOf(s) } :
            D \in SUBSET ServiceNames }

NoFrontOut ==
  [op |-> "none", arg |-> << >>, err |-> "", service |-> << >>, client |-> "none",
   result |-> << >>, logged |-> FALSE]

\* (mutant) a handler that takes the chain of the first service that has one
callToolAnyChain(name) ==
  LET parsed == parseName(name) IN
  /\ IF parsed.err # ""
     THEN /\ aggOut' = [NoOut EXCEPT !.op = "parseName", !.arg = name, !.err = parsed.err]
          /\ UNCHANGED << backends, excludedTools >>
     ELSE routeToolCall(name)
  /\ frontOut' =
       IF aggOut'.err # ""
       THEN [NoFrontOut EXCEPT !.op = "callTool", !.arg = name, !.err = aggOut'.err,
                               !.logged = TRUE]
       ELSE LET middlewares ==
                  IF DOMAIN serviceMiddlewares # {}
                  THEN serviceMiddlewares[CHOOSE s \in DOMAIN serviceMiddlewares : TRUE]
                  ELSE << >>
            IN IF applyMiddlewareThrows(middlewares)
               THEN [NoFrontOut EXCEPT !.op = "callTool", !.arg = name,
                                       !.err = "response threw", !.logged = TRUE]
               ELSE [NoFrontOut EXCEPT !.op = "callTool", !.arg = name,
                                       !.service = parsed.service,
                                       !.client = aggOut'.client,
                                       !.result = applyMiddleware(middlewares, name, << >>)]
  /\ UNCHANGED serviceMiddlewares

\* The CallTool handler: parseName, routeToolCall, the chain of the parsed
\* service or none, applyMiddleware; an error of any of them is logged and
\* thrown on.
\* The backend's result is the empty sequence of applications.
callToolHandler(name) ==
  LET parsed == parseName(name) IN
  /\ IF parsed.err # ""
     THEN /\ aggOut' = [NoOut EXCEPT !.op = "parseName", !.arg = name, !.err = parsed.err]
          /\ UNCHANGED << backends, excludedTools >>
     ELSE routeToolCall(name)
  /\ frontOut' =
       IF aggOut'.err # ""
       THEN [NoFrontOut EXCEPT !.op = "callTool", !.arg = name, !.err = aggOut'.err,
                               !.logged = TRUE]
       ELSE LET middlewares ==
                  IF parsed.service \in DOMAIN serviceMiddlewares
                  THEN serviceMiddlewares[parsed.service]
                  ELSE << >>
            IN IF applyMiddlewareThrows(middlewares)
               THEN [NoFrontOut EXCEPT !.op = "callTool", !.arg = name,
                                       !.err = "response threw", !.logged = TRUE]
               ELSE [NoFrontOut EXCEPT !.op = "callTool", !.arg = name,
                                       !.service = parsed.service,
                                       !.client = aggOut'.client,
                                       !.result = applyMiddleware(middlewares, name, << >>)]
  /\ UNCHANGED serviceMiddlewares

FrontInit == serviceMiddlewares \in ServiceMiddlewareMaps /\ frontOut = NoFrontOut

FrontIdle == serviceMiddlewares = [s \in {} |-> << >>] /\ frontOut = NoFrontOut

\* Backends come and go between calls; frontOut is what the last operation
\* returned when it was a tool call.
FrontStep ==
  \/ /\ \/ \E name \in ServiceNames, client \in Clients :
             addBackend(name, client, [given |-> FALSE, tools |-> {}])
        \/ \E name \in ServiceNames : removeBackend(name)
     /\ frontOut' = NoFrontOut
     /\ UNCHANGED serviceMiddlewares
  \/ \E name \in CallNames : callToolHandler(name)

(***************************************************************************)
(* Configuration (config.ts): one service entry of the parsed YAML through *)
(* applyServiceDefaults.  A raw scalar is [t, num, str] with t one of      *)
(* "undef", "num", "str"; a string is the sequence of its characters.      *)
(***************************************************************************)
VARIABLES cfgRaw, cfgOut

cfgVars == << cfgRaw, cfgOut >>

rawUndef == [t |-> "undef", num |-> 0, str |-> << >>]

rawNum(n) == [t |-> "num", num |-> n, str |-> << >>]

rawStr(x) == [t |-> "str", num |-> 0, str |-> x]

\* Values a YAML file can give to readiness.timeout and readiness.interval.
RawDurations ==
  { rawUndef, rawNum(0), rawNum(-1), rawNum(250),
    rawStr(<<"2", "s">>), rawStr(<<"0", "s">>), rawStr(<<"5", "0", " ", "m", "s">>),
    rawStr(<<"1", "m">>), rawStr(<<"s">>), rawStr(<<"-", "1", "s">>), rawStr(<<"2", "h">>) }

RawServices ==
  [command : { rawUndef, rawStr(<< >>), rawStr(<<"x">>) },
   transport : { rawUndef, rawStr(<<"s", "s", "e">>), rawStr(<<"s", "t", "d", "i", "o">>),
                 rawStr(<<"t", "c", "p">>) },
   url : { rawUndef, rawStr(<<"u">>) },
   restart : { rawUndef, rawStr(<<"n", "e", "v", "e", "r">>), rawStr(<<"o", "n", "c", "e">>) },
   check : { rawUndef, rawStr(<<"h", "t", "t", "p">>), rawStr(<<"t", "c", "p">>) },
   timeout : RawDurations,
   interval : { rawUndef, rawNum(0), rawStr(<<"5", "0", " ", "m", "s">>), rawStr(<<"s">>) }]

Digits == << "0", "1", "2", "3", "4", "5", "6", "7", "8", "9" >>

isDigit(ch) == \E d \in 1..10 : Digits[d] = ch

digitValue(ch) == (CHOOSE d \in 1..10 : Digits[d] = ch) - 1

\* parseFloat of a run of digits
RECURSIVE parseDigits(_, _)
parseDigits(ds, acc) ==
  IF ds = << >> THEN acc ELSE parseDigits(Tail(ds), acc * 10 + digitValue(Head(ds)))

\* parseDuration(s) for s without a decimal point: the match of
\* /^(\d+)\s*(ms|s|m)$/, then the value in milliseconds; err when no match.
parseDuration(str) ==
  LET nd == CHOOSE k \in 0..Len(str) :
              /\ \A i \in 1..k : isDigit(str[i])
              /\ k < Len(str) => ~isDigit(str[k + 1])
      ns == CHOOSE k \in nd..Len(str) :
              /\ \A i \in (nd + 1)..k : str[i] = " "
              /\ k < Len(str) => str[k + 1] # " "
      unit == SubSeq(str, ns + 1, Len(str))
      n == parseDigits(SubSeq(str, 1, nd), 0)
  IN IF nd = 0 \/ unit \notin { <<"m", "s">>, <<"s">>, <<"m">> }
     THEN [err |-> "Invalid duration", ms |-> 0]
     ELSE [err |-> "",
           ms |-> IF unit = <<"m", "s">> THEN n
                  ELSE IF unit = <<"s">> THEN n * 1000 ELSE n * 60000]

\* typeof raw === "string" ? parseDuration(raw) : raw ?? default
duration(raw, default) ==
  IF raw.t = "str" THEN parseDuration(raw.str)
  ELSE [err |-> "", ms |-> IF raw.t = "undef" THEN default ELSE raw.num]

orDefault(raw, default) == IF raw.t = "undef" THEN default ELSE raw.str

NoConfig ==
  [done |-> FALSE, err |-> "", command |-> << >>, transport |-> << >>, hasUrl |-> FALSE,
   restart |-> << >>, check |-> << >>, timeout |-> 0, interval |-> 0]

\* applyServiceDefaults(raw): the ServiceConfig, or the error it throws.
applyServiceDefaults(raw) ==
  LET transport == orDefault(raw.transport, <<"s", "s", "e">>)
      restart == orDefault(raw.restart, <<"o", "n", "-", "f", "a", "i", "l", "u", "r", "e">>)
      check == orDefault(raw.check, <<"h", "t", "t", "p">>)
      timeout == duration(raw.timeout, 30000)
      interval == duration(raw.interval, 500)
      thrown(e) == [NoConfig EXCEPT !.done = TRUE, !.err = e]
  IN IF raw.command.t = "undef" \/ raw.command.str = << >>
     THEN thrown("Service must have a 'command' field")
     ELSE IF transport \notin { <<"s", "s", "e">>, <<"s", "t", "d", "i", "o">> }
     THEN thrown("Invalid transport")
     ELSE IF restart \notin { <<"o", "n", "-", "f", "a", "i", "l", "u", "r", "e">>,
                              <<"a", "l", "w", "a", "y", "s">>, <<"n", "e", "v", "e", "r">> }
     THEN thrown("Invalid restart policy")
     ELSE IF check # <<"h", "t", "t", "p">>
     THEN thrown("Invalid readiness check")
     ELSE IF timeout.err # "" THEN thrown(timeout.err)
     ELSE IF interval.err # "" THEN thrown(interval.err)
     ELSE [done |-> TRUE, err |-> "", command |-> raw.command.str, transport |-> transport,
           hasUrl |-> raw.url.t # "undef", restart |-> restart, check |-> check,
           timeout |-> timeout.ms, interval |-> interval.ms]

CfgInit == cfgRaw \in RawServices /\ cfgOut = NoConfig

CfgIdle ==
  /\ cfgRaw = [command |-> rawStr(<<"x">>), transport |-> rawUndef, url |-> rawStr(<<"u">>),
               restart |-> rawUndef, check |-> rawUndef, timeout |-> rawUndef,
               interval |-> rawUndef]
  /\ cfgOut = NoConfig

\* loadConfig over a file with this one service.
loadConfig ==
  /\ ~cfgOut.done
  /\ cfgOut' = applyServiceDefaults(cfgRaw)
  /\ UNCHANGED cfgRaw

(***************************************************************************)
(* The kill command (index.ts: cmdKill) over the state file as loadState   *)
(* reads it.  A pid is the text of its digits, as in the file.             *)
(***************************************************************************)
VARIABLES killIn, killOut

killVars == << killIn, killOut >>

McpdPid == "9"

\* What the command line gives as target: nothing, all, a service name.
KillTargets == { Undefined, "all", "s1", "s2", "s3" }

\* The state files a supervisor may have left: none, or what saveState wrote.
KillFiles ==
  { NoFile } \cup
  { saveStateFile(M) : M \in { X \in ManagerMaps :
        /\ \A n \in SvcNames : X.urls[n] = jsUndef
        /\ \A i \in 1..Len(X.states) : X.states[i].val = jsStr("ready")
        /\ X.services = << >> } }

NoKillOut == [done |-> FALSE, status |-> 0, signalled |-> {}]

\* killServiceByPid(name, info): SIGTERM to info.pid when there is one and it
\* is alive; the pids signalled.
killServiceByPid(info, alive) ==
  LET pid == member(info, "pid") IN
  IF pid.t = "undef" \/ pid.v \notin alive THEN {} ELSE { pid.v }

\* cmdKill(target): the exit status and the pids that were sent SIGTERM.
cmdKill(in) ==
  LET state == loadStateFile(in.file)
      killAll == in.target = Undefined \/ in.target = "all"
      known == \E i \in 1..Len(state) : state[i].key = in.target
      toKill == IF killAll THEN 1..Len(state)
                ELSE { i \in 1..Len(state) : state[i].key = in.target }
  IN IF Len(state) = 0 THEN [NoKillOut EXCEPT !.done = TRUE]
     ELSE IF ~killAll /\ ~known THEN [NoKillOut EXCEPT !.done = TRUE, !.status = 1]
     ELSE [done |-> TRUE, status |-> 0,
           signalled |->
             UNION { killServiceByPid(state[i].val, in.alive) : i \in toKill }
               \cup (IF killAll /\ in.pidFile THEN { McpdPid } ELSE {})]

KillInit ==
  /\ killIn \in [file : KillFiles, target : KillTargets, pidFile : BOOLEAN,
                 alive : SUBSET { ToString(p) : p \in 1..MaxPid }]
  /\ killOut = NoKillOut

KillIdle ==
  /\ killIn = [file |-> NoFile, target |-> Undefined, pidFile |-> FALSE, alive |-> {}]
  /\ killOut = NoKillOut

CmdKill ==
  /\ ~killOut.done
  /\ killOut' = cmdKill(killIn)
  /\ UNCHANGED killIn

(***************************************************************************)
(* Specifications.                                                         *)
(***************************************************************************)
extraVars == << daemonVars, sfVars, mwVars, frontVars, cfgVars, killVars >>

ExtraIdle == DaemonIdle /\ SfAtRest /\ MwIdle /\ FrontIdle /\ CfgIdle /\ KillIdle

vars == << aggVars, supVars, proxyVars, lifeVars, extraVars >>

Init == AggInit /\ SupInit /\ ProxyInit /\ LifeIdle /\ ExtraIdle

\* The aggregator.
AggNext == AggStep /\ UNCHANGED << supVars, proxyVars, lifeVars, extraVars >>

AggOnlyInit == AggInit /\ SupIdle /\ ProxyInit /\ LifeIdle /\ ExtraIdle

AggSpec == AggOnlyInit /\ [][AggNext]_vars

\* The supervisor of one service.
Next == SupStep /\ UNCHANGED << aggVars, proxyVars, lifeVars, extraVars >>

Spec == Init /\ [][Next]_vars

\* The supervisor with a service whose configured policy restarts it.
PolicyInit == Init /\ cfg["s1"].restart # "never"

PolicySpec == PolicyInit /\ [][Next]_vars

\* The supervisor starting two services together.
AllNext == AllStep /\ UNCHANGED << aggVars, proxyVars, lifeVars, extraVars >>

StartAllInit == AggInit /\ AllInit /\ ProxyInit /\ LifeIdle /\ ExtraIdle

AllSpec == StartAllInit /\ [][AllNext]_vars

\* The supervisor with two services started and stopped together; the
\* second is a stdio service.
StopAllInit == StartAllInit /\ cfg["s2"].transport = "stdio"

StopAllNext == StopAllStep /\ UNCHANGED << aggVars, proxyVars, lifeVars, extraVars >>

StopAllSpec == StopAllInit /\ [][StopAllNext]_vars

\* The proxy.
ProxyNext == ProxyStep /\ UNCHANGED << aggVars, supVars, lifeVars, extraVars >>

ProxyOnlyInit == AggInit /\ SupIdle /\ ProxyInit /\ LifeIdle /\ ExtraIdle

ProxySpec == ProxyOnlyInit /\ [][ProxyNext]_vars

\* The life of the proxy.
ProxyLifeInit == AggInit /\ SupIdle /\ ProxyInit /\ LifeInit /\ ExtraIdle

LifeNext == LifeStep /\ UNCHANGED << aggVars, supVars, extraVars >>

LifeSpec == ProxyLifeInit /\ [][LifeNext]_vars

\* The idle state of everything but the extras.
BaseIdle == AggInit /\ SupIdle /\ ProxyInit /\ LifeIdle

baseVars == << aggVars, supVars, proxyVars, lifeVars >>

\* The daemon shutting down.
DaemonOnlyInit == BaseIdle /\ DaemonInit /\ SfAtRest /\ MwIdle /\ FrontIdle /\ CfgIdle /\ KillIdle

DaemonNext == DaemonStep /\ UNCHANGED << baseVars, sfVars, mwVars, frontVars, cfgVars, killVars >>

DaemonSpec == DaemonOnlyInit /\ [][DaemonNext]_vars

\* The state file written and read back.
StateFileInit == BaseIdle /\ DaemonIdle /\ SfInit /\ MwIdle /\ FrontIdle /\ CfgIdle /\ KillIdle

StateFileNext == SfStep /\ UNCHANGED << baseVars, daemonVars, mwVars, frontVars, cfgVars, killVars >>

StateFileSpec == StateFileInit /\ [][StateFileNext]_vars

\* A pipeline applied to a result.
MiddlewareInit == BaseIdle /\ DaemonIdle /\ SfAtRest /\ MwInit /\ FrontIdle /\ CfgIdle /\ KillIdle

MiddlewareNext == MwApply /\ UNCHANGED << baseVars, daemonVars, sfVars, frontVars, cfgVars, killVars >>

MiddlewareSpec == MiddlewareInit /\ [][MiddlewareNext]_vars

\* The front server over the aggregator.
FrontServerInit == BaseIdle /\ DaemonIdle /\ SfAtRest /\ MwIdle /\ FrontInit /\ CfgIdle /\ KillIdle

FrontNext ==
  FrontStep /\ UNCHANGED << supVars, proxyVars, lifeVars, daemonVars, sfVars, mwVars, cfgVars, killVars >>

FrontSpec == FrontServerInit /\ [][FrontNext]_vars

\* A configuration loaded.
ConfigInit == BaseIdle /\ DaemonIdle /\ SfAtRest /\ MwIdle /\ FrontIdle /\ CfgInit /\ KillIdle

ConfigNext == loadConfig /\ UNCHANGED << baseVars, daemonVars, sfVars, mwVars, frontVars, killVars >>

ConfigSpec == ConfigInit /\ [][ConfigNext]_vars

\* The kill command.
KillOnlyInit ==
  BaseIdle /\ DaemonIdle /\ SfAtRest /\ MwIdle /\ FrontIdle /\ CfgIdle /\ KillInit

KillNext ==
  CmdKill /\ UNCHANGED << baseVars, daemonVars, sfVars, mwVars, frontVars, cfgVars >>

KillSpec == KillOnlyInit /\ [][KillNext]_vars

(***************************************************************************)
(* Claims about the aggregator, checked under AggSpec.                     *)
(***************************************************************************)
\* b_ is a prefix of n: n = b + "_" + rest.
isServicePrefix(b, n) ==
  /\ Len(n) > Len(b)
  /\ SubSeq(n, 1, Len(b)) = b
  /\ n[Len(b) + 1] = US

matchingBackends(n) == { b \in mapKeys(backends) : isServicePrefix(b, n) }

longestMatch(n) ==
  CHOOSE b \in matchingBackends(n) : \A c \in matchingBackends(n) : Len(c) <= Len(b)

\* C1: with two or more backends, routing the external name s_t of a registered
\* backend s and a tool t resolves to service s and tool t (the external-name
\* mapping is injective).
C1_RoundTrip ==
  (aggOut.op = "routeToolCall" /\ Len(backends) >= 2) =>
    \A s \in mapKeys(backends), t \in ToolNames :
      aggOut.arg = externalName(s, t) =>
        aggOut.err = "" /\ aggOut.service = s /\ aggOut.tool = t

\* C2: with two or more backends, a name with several matching backend
\* prefixes resolves to the longest of them and the remainder after its
\* underscore; the result is a function of the set of registered names.
C2_LongestPrefixWins ==
  needsPrefix =>
    /\ \A n \in CallNames :
         matchingBackends(n) # {} =>
           parseName(n) =
             [err |-> "", service |-> longestMatch(n),
              tool |-> SubSeq(n, Len(longestMatch(n)) + 2, Len(n))]
    /\ (aggOut.op = "routeToolCall" /\ matchingBackends(aggOut.arg) # {}) =>
         /\ aggOut.err = ""
         /\ aggOut.service = longestMatch(aggOut.arg)
         /\ externalName(aggOut.service, aggOut.tool) = aggOut.arg

\* a_b was registered before a, and a_b_t went to a_b with tool t.
C2_Witness ==
  /\ Len(backends) >= 2
  /\ backends[1].name = <<"a", "_", "b">>
  /\ backends[2].name = <<"a">>
  /\ aggOut.op = "routeToolCall"
  /\ aggOut.arg = <<"a", "_", "b", "_", "t">>
  /\ aggOut.service = <<"a", "_", "b">>
  /\ aggOut.tool = <<"t">>

C4_ExclusionPerBackend ==
  /\ DOMAIN excludedTools \subseteq mapKeys(backends)
  /\ aggOut.op = "addBackend" =>
       IF aggOut.excl = {} THEN aggOut.arg \notin DOMAIN excludedTools
       ELSE excludedTools[aggOut.arg] = aggOut.excl
  /\ aggOut.op = "listAllTools" =>
       /\ \A i \in 1..Len(aggOut.listing) :
            LET tl == aggOut.listing[i] IN
            ~(tl.service \in DOMAIN excludedTools
                /\ tl.originalName \in excludedTools[tl.service])
       /\ \A k \in 1..Len(backends) :
            LET tools == listTools(backends[k].client) IN
            \A j \in 1..Len(tools) :
              (backends[k].name \notin DOMAIN excludedTools
                 \/ tools[j].name \notin excludedTools[backends[k].name]) =>
                \E i \in 1..Len(aggOut.listing) :
                  /\ aggOut.listing[i].service = backends[k].name
                  /\ aggOut.listing[i].originalName = tools[j].name

\* Backend a hides t, backend b lists its own t.
C4_Witness ==
  /\ aggOut.op = "listAllTools"
  /\ <<"a">> \in DOMAIN excludedTools
  /\ <<"t">> \in excludedTools[<<"a">>]
  /\ <<"b">> \in mapKeys(backends) \ DOMAIN excludedTools
  /\ \E i \in 1..Len(aggOut.listing) : aggOut.listing[i].name = <<"b", "_", "t">>
  /\ \A i \in 1..Len(aggOut.listing) : aggOut.listing[i].name # <<"a", "_", "t">>


(***************************************************************************)
(* Claims about the supervisor.                                            *)
(***************************************************************************)
liveChildren(n) == { p \in 1..Len(procs) : procs[p].alive /\ procs[p].name = n }

idle == \A t \in TaskIds : tasks[t].pc = "free"

\* C5: while the url of an sse service has never answered 2xx, a start that
\* spawned a child does not return; and when start rejects with the readiness
\* time-out, the state of the service is error, the child this start spawned
\* is dead, and neither the process map nor the pid map has an entry for the
\* service.
C5_TimeoutLeavesError ==
  (ev.name \in SvcNames /\ ~answered[ev.name]) =>
     /\ (ev.type \in {"startOk", "restartOk"} /\ ev.via = "spawn")
           => cfg[ev.name].transport # "sse"
     /\ (ev.type \in {"startErr", "restartErr"} /\ ev.msg = "timed out") =>
           /\ states[ev.name] = "error"
           /\ services[ev.name] = 0
           /\ pids[ev.name] = 0
           /\ ev.mine \in 1..Len(procs)
           /\ ~procs[ev.mine].alive

C5_Witness ==
  /\ ev.type = "startErr" /\ ev.msg = "timed out" /\ ~answered[ev.name]
  /\ ev.mine \in 1..Len(procs) /\ procs[ev.mine].sig = "KILL"
  /\ cfg[ev.name].transport = "sse"

\* C6: the step in which start finds the state file's pid alive and the
\* url reachable spawns nothing, records that pid, sets ready, persists both,
\* and leaves every process as it was.
C6_ReuseStep ==
  (ev'.type \in {"startOk", "restartOk"} /\ ev'.saved # 0 /\ ev'.reach1) =>
     /\ ev'.mine = 0
     /\ procs' = procs
     /\ extAlive' = extAlive
     /\ pids'[ev'.name] = ev'.saved
     /\ states'[ev'.name] = "ready"
     /\ ev'.name \in DOMAIN stateFile'
     /\ stateFile'[ev'.name].pid = ev'.saved
     /\ stateFile'[ev'.name].state = "ready"

C6_ReuseAdopts == [][C6_ReuseStep]_vars

C6_Witness ==
  /\ ev.type = "startOk" /\ ev.saved = ExtPid /\ ev.reach1
  /\ extAlive /\ pids[ev.name] = ExtPid /\ procs = <<>>

\* C7: when stop returns and no other call is in flight, the pid that was
\* recorded for the service is dead, no pid is recorded, the state is stopped.
C7_StopClears ==
  (ev.type = "stopDone" /\ ev.recPid # 0 /\ idle) =>
     /\ ~pidAlive(Cur, ev.recPid)
     /\ pids[ev.name] = 0
     /\ getState(Cur, ev.name) = "stopped"

\* What startAll keeps of its contract whatever the services are: it returns
\* or throws only when every start has settled; when it throws, stop has been
\* called and has returned for every service whose start succeeded, and the
\* error names exactly the failed starts; when it returns, every start
\* succeeded; a stop is in flight only for the rollback of a failed startAll.
startAllSettles ==
  /\ ev.type = "startAllErr" =>
        /\ \A n \in svcs : ev.results[n] \in {"rejected", "stopped"}
        /\ \E n \in svcs : ev.results[n] = "rejected"
        /\ { m[1] : m \in ev.msgs } = { n \in svcs : ev.results[n] = "rejected" }
  /\ ev.type = "startAllOk" => \A n \in svcs : ev.results[n] = "fulfilled"
  /\ \A t \in TaskIds :
        tasks[t].op = "stop" =>
           /\ tasks[t].parent \in TaskIds
           /\ tasks[tasks[t].parent].op = "startAll"
           /\ \E n \in svcs : tasks[tasks[t].parent].results[n] = "rejected"

\* C8: startAll settles as above, and when it throws, every service whose
\* start succeeded is stopped: it has no process-map entry, no live child, and
\* no live process recorded as its pid.
C8_StartAllRollsBack ==
  /\ startAllSettles
  /\ ev.type = "startAllErr" =>
        \A n \in svcs :
           ev.results[n] = "stopped" =>
              /\ services[n] = 0
              /\ liveChildren(n) = {}
              /\ ~pidAlive(Cur, pids[n])

\* The same for the services whose url never answered, which are those this
\* instance spawned itself.
RollbackStopsOwnChildren ==
  /\ startAllSettles
  /\ ev.type = "startAllErr" =>
        \A n \in svcs :
           (ev.results[n] = "stopped" /\ ~answered[n]) =>
              /\ services[n] = 0
              /\ liveChildren(n) = {}
              /\ ~pidAlive(Cur, pids[n])

\* C9: at most one live child of this instance per service name.
C9_OneLiveChild == \A n \in SvcNames : Cardinality(liveChildren(n)) <= 1


(***************************************************************************)
(* Claims about the proxy.                                                 *)
(***************************************************************************)
\* C10: every response written to a session's stream answers a request that
\* this session posted, under that request's JSON-RPC id and with the result
\* of that request's tool and arguments; no request is answered twice.
C10_NoCrossTalk ==
  /\ \A d \in inbox :
        \E r \in issued :
           /\ r.sess = d.sess /\ r.rid = d.rid
           /\ d.result = toolResult(r.tool, r.arg)
  /\ \A d, e \in inbox : (d.sess = e.sess /\ d.rid = e.rid) => d = e

\* Two sessions, both with a response, whose requests had the same JSON-RPC
\* id and different tools, the later request answered first.
C10_Witness ==
  \E d, e \in inbox :
     /\ d.sess # e.sess /\ d.rid = e.rid /\ d.result # e.result
     /\ \E c \in clientPending : c.sess \in {d.sess, e.sess} /\ c.id = 0


\* C11: the sessions Map holds exactly the open SSE transports; GET /sse adds
\* one id that was never used; a close takes out that id only; POST /message
\* for an id that is not in the Map is answered 404 and forwarded nowhere,
\* and for an id in the Map is handed to that session alone.
C11_Step ==
  /\ sessions' = transports'
  /\ pev'.type = "sse" =>
        /\ pev'.sid \notin 1..opened
        /\ pev'.sid \notin sessions
        /\ sessions' = sessions \cup { pev'.sid }
  /\ pev'.type = "close" => sessions' = sessions \ { pev'.sid }
  /\ (pev'.type = "post" /\ pev'.sid \notin sessions) =>
        /\ httpOut' = 404
        /\ clientPending' = clientPending
        /\ backendIn' = backendIn
        /\ inbox' = inbox
  /\ (pev'.type = "post" /\ pev'.sid \in sessions) =>
        /\ httpOut' = 202
        /\ \A c \in clientPending' \ clientPending : c.sess = pev'.sid

C11_SessionMap == [][C11_Step]_vars

C11_Witness ==
  /\ pev.type = "post" /\ httpOut = 404
  /\ pev.sid \in 1..opened /\ pev.sid \notin transports
  /\ sessions # {}


\* C12: under restart never no reconnect is ever scheduled or attempted, and
\* the step in which the backend exits starts the shutdown.
C12_Step ==
  proxyRestart = "never" =>
     /\ recon' = NoRecon
     /\ attempts' = 0
     /\ pev'.type # "attempt"
     /\ pev'.type = "backendExit" => (cleaningUp' /\ shutdownLog' # << >>)

C12_NeverShutsDown == [][C12_Step]_vars

C12_Witness ==
  /\ proxyRestart = "never" /\ pev.type = "backendExit"
  /\ cleaningUp /\ cleanupPc = "sessions" /\ backend = "down"


\* C13: under restart on-failure a backend exit schedules one reconnect
\* attempt, made after 1 s; a successful attempt leaves the backend connected
\* with the exit handler attached, so the next exit is handled the same way; a
\* failed attempt starts the shutdown, and from then on nothing is scheduled or
\* attempted.
C13_GaveUp == cleaningUp /\ recon = NoRecon /\ backend = "down"

C13_Step ==
  proxyRestart = "on-failure" =>
     /\ pev'.type = "backendExit" =>
          (recon' = [phase |-> "timer", delay |-> FirstDelayMs] /\ attempts' = 1)
     /\ pev'.type = "attempt" => (recon.delay = FirstDelayMs /\ attempts = 1)
     /\ (pev'.type = "connect" /\ pev'.ok) =>
          (backend' = "up" /\ handlerOn' /\ recon' = NoRecon)
     /\ (pev'.type = "connect" /\ ~pev'.ok) =>
          (cleaningUp' /\ recon' = NoRecon /\ backend' = "down")
     /\ C13_GaveUp => (C13_GaveUp' /\ pev'.type \notin {"attempt", "connect"})

C13_OnFailure == [][C13_Step]_vars

C13_Witness ==
  /\ proxyRestart = "on-failure" /\ pev.type = "connect" /\ ~pev.ok
  /\ cleaningUp /\ cleanupPc = "sessions" /\ recon = NoRecon /\ sessions # {}


\* C14: under restart always a failed attempt never starts the shutdown and
\* always schedules the next attempt; the delay before the k-th consecutive
\* attempt after a backend exit is min(1000 * 2^(k-1), 30000) ms; a backend
\* exit after a successful reconnect starts again at 1000 ms.
backoff(k) ==
  IF FirstDelayMs * 2^(k - 1) < MAX_DELAY THEN FirstDelayMs * 2^(k - 1) ELSE MAX_DELAY

C14_Step ==
  proxyRestart = "always" =>
     /\ recon'.phase # "idle" => (attempts' >= 1 /\ recon'.delay = backoff(attempts'))
     /\ (pev'.type = "connect" /\ ~pev'.ok) =>
          /\ cleaningUp' = cleaningUp
          /\ shutdownLog' = shutdownLog
          /\ recon'.phase = "timer"
          /\ attempts' = attempts + 1
     /\ pev'.type = "backendExit" => (recon'.phase = "timer" /\ attempts' = 1)

C14_Always == [][C14_Step]_vars

C14_Witness ==
  /\ proxyRestart = "always" /\ pev.type = "connect" /\ ~pev.ok
  /\ attempts = 7 /\ recon = [phase |-> "timer", delay |-> MAX_DELAY] /\ ~cleaningUp


\* C15: whatever triggers the shutdown and however often, the steps of the
\* shutdown sequence (close sessions, close the client, stop the listener,
\* remove the state entry, exit) are each run at most once and in this order,
\* and nothing of it runs unless cleanup was entered.
ShutdownOrder == << "sessions", "client", "listener", "entry", "exit" >>

C15_ShutdownOnce ==
  /\ Len(shutdownLog) <= Len(ShutdownOrder)
  /\ shutdownLog = SubSeq(ShutdownOrder, 1, Len(shutdownLog))
  /\ cleaningUp <=> shutdownLog # << >>
  /\ exited <=> shutdownLog = ShutdownOrder
  /\ listening <=> Len(shutdownLog) < 3
  /\ stateEntry <=> Len(shutdownLog) < 4

\* a signal arrives when the sequence has already stopped the listener
C15_Witness ==
  /\ pev.type = "signal" /\ cleanupPc = "remove"
  /\ shutdownLog = SubSeq(ShutdownOrder, 1, 3)


(***************************************************************************)
(* Claims about the daemon's shutdown, checked under DaemonSpec.           *)
(***************************************************************************)
\* C16: while the daemon shuts down, stop is called for no service with
\* keep_alive, and the daemon terminates no process of such a service,
\* whatever its transport.
C16_KeepAliveSurvives ==
  \A n \in SvcNames :
    dcfg[n].keep_alive => (n \notin dstopped /\ n \notin dterminated /\ n \in dalive)

\* What holds of it: stop is called exactly for the services without
\* keep_alive, and an sse service with keep_alive keeps its process.
KeepAliveSseSurvives ==
  /\ \A n \in dstopped : ~dcfg[n].keep_alive
  /\ \A n \in SvcNames :
       (dcfg[n].keep_alive /\ dcfg[n].transport = "sse") =>
          (n \notin dterminated /\ n \in dalive)


(***************************************************************************)
(* Claims about the state file, checked under StateFileSpec.               *)
(***************************************************************************)
\* C17: what loadState reads from the file saveState wrote has exactly the
\* names of the supervisor's state map, each once, and for each name the same
\* state, pid and url (an absent pid or url stays absent).
C17_StateRoundTrip ==
  (sfLoaded.done /\ sfFile.exists) =>
     LET x == getAll(sfM)
         y == sfLoaded.obj
     IN /\ Len(y) = Len(x)
        /\ \A i \in 1..Len(x) :
             /\ y[i].key = x[i].name
             /\ member(y[i].val, "name") = jsStr(x[i].name)
             /\ member(y[i].val, "state") = x[i].state
             /\ member(y[i].val, "pid") = x[i].pid
             /\ member(y[i].val, "url") = x[i].url

\* two names, one known only by its process, one without pid and url
C17_Witness ==
  /\ sfLoaded.done /\ sfFile.exists /\ Len(sfLoaded.obj) = 2
  /\ \E i \in 1..2 : Len(sfLoaded.obj[i].val) = 2
  /\ \E i \in 1..2 : Len(sfLoaded.obj[i].val) = 4
  /\ Len(sfM.states) = 1 /\ Len(sfM.services) = 1


(***************************************************************************)
(* Claims about the middleware, checked under MiddlewareSpec.              *)
(***************************************************************************)
\* C18: applyMiddleware returns the result after the response functions of
\* the pipeline, those that are present, each applied once to the output of
\* the one before it, in the order of the pipeline; an empty pipeline, or one
\* without any response, returns the result as it was.
C18_Fold ==
  mwOut.done =>
    LET present == SelectSeq(mwIn.middlewares, LAMBDA mw : mw.response # Undefined) IN
    mwOut.result =
      mwIn.result \o [i \in 1..Len(present) |-> << present[i].response, mwIn.toolName >>]

\* g, a middleware without response, then f, on a result that is not empty
C18_Witness ==
  /\ mwOut.done
  /\ mwIn.middlewares = << [response |-> "g"], [response |-> Undefined], [response |-> "f"] >>
  /\ mwIn.result # << >>
  /\ Len(mwOut.result) = 3


(***************************************************************************)
(* Claims about the front server, checked under FrontSpec.                 *)
(***************************************************************************)
\* C19: a tool call that the front server answers went to the client
\* registered for the service parseName resolves the name to, and its result
\* went through the responses of that service's chain and of no other; for a
\* service without a chain the result is the backend's.
C19_OwnChainOnly ==
  (frontOut.op = "callTool" /\ frontOut.err = "") =>
     LET s == parseName(frontOut.arg).service
         chain == IF s \in DOMAIN serviceMiddlewares THEN serviceMiddlewares[s] ELSE << >>
         present == SelectSeq(chain, LAMBDA mw : mw.response # Undefined)
     IN /\ parseName(frontOut.arg).err = ""
        /\ frontOut.service = s
        /\ mapHas(backends, s)
        /\ frontOut.client = backends[mapGet(backends, s)].client
        /\ frontOut.result = [i \in 1..Len(present) |-> << present[i].response, frontOut.arg >>]
        /\ \A o \in DOMAIN serviceMiddlewares \ { s } :
             \A i \in 1..Len(frontOut.result) :
               frontOut.result[i][1] # serviceMiddlewares[o][1].response
        /\ s \notin DOMAIN serviceMiddlewares => frontOut.result = << >>

\* two backends with different chains and different clients; the call goes
\* to the second one
C19_Witness ==
  /\ frontOut.op = "callTool" /\ frontOut.err = ""
  /\ Len(backends) = 2
  /\ frontOut.service = backends[2].name
  /\ backends[1].client # backends[2].client
  /\ backends[1].name \in DOMAIN serviceMiddlewares
  /\ backends[2].name \in DOMAIN serviceMiddlewares
  /\ Len(frontOut.result) = 2


(***************************************************************************)
(* Claims about the configuration, checked under ConfigSpec.               *)
(***************************************************************************)
\* C20: a ServiceConfig that loadConfig returns has a command that is not
\* empty, a url when its transport is sse, and a readiness timeout and
\* interval above zero.
C20_ConfigInvariants ==
  (cfgOut.done /\ cfgOut.err = "") =>
     /\ cfgOut.command # << >>
     /\ cfgOut.transport = <<"s", "s", "e">> => cfgOut.hasUrl
     /\ cfgOut.timeout > 0
     /\ cfgOut.interval > 0

\* What holds of it: the command is not empty, and transport, restart and
\* readiness check are values of their enumerations.
ReturnedConfigChecked ==
  (cfgOut.done /\ cfgOut.err = "") =>
     /\ cfgOut.command # << >>
     /\ cfgOut.transport \in { <<"s", "s", "e">>, <<"s", "t", "d", "i", "o">> }
     /\ cfgOut.restart \in { <<"o", "n", "-", "f", "a", "i", "l", "u", "r", "e">>,
                             <<"a", "l", "w", "a", "y", "s">>, <<"n", "e", "v", "e", "r">> }
     /\ cfgOut.check = <<"h", "t", "t", "p">>
     /\ cfgRaw.timeout.t = "str" => cfgOut.timeout >= 0


(***************************************************************************)
(* Claims about the kill command, checked under KillSpec.                  *)
(***************************************************************************)
\* C21: kill with a name that is not all and not a service of the state file
\* ends with status 1 and signals no process, whatever the state file holds,
\* a missing or empty one included.
C21_UnknownNameFails ==
  LET state == loadStateFile(killIn.file) IN
  (/\ killOut.done
   /\ killIn.target \notin { Undefined, "all" }
   /\ ~\E i \in 1..Len(state) : state[i].key = killIn.target) =>
     (killOut.status = 1 /\ killOut.signalled = {})

\* What holds of it: such a kill signals nothing, and ends with status 1 when
\* the state file tracks some service.
UnknownNameSignalsNothing ==
  LET state == loadStateFile(killIn.file) IN
  (/\ killOut.done
   /\ killIn.target \notin { Undefined, "all" }
   /\ ~\E i \in 1..Len(state) : state[i].key = killIn.target) =>
     /\ killOut.signalled = {}
     /\ killOut.status = (IF Len(state) = 0 THEN 0 ELSE 1)


(***************************************************************************)
(* Claims about the aggregator's errors and listing, checked under AggSpec.*)
(***************************************************************************)
NoParse(e) == [err |-> e, service |-> <<>>, tool |-> <<>>]

hasServicePart(n) == \E i \in 2..Len(n) : n[i] = US

\* C23: routing a name whose service part is no registered backend fails with
\* "Unknown service" and reaches no backend.
C23_UnknownService ==
  (/\ aggOut.op = "routeToolCall"
   /\ backends # <<>>
   /\ hasServicePart(aggOut.arg)
   /\ \A i \in 2..Len(aggOut.arg) :
        aggOut.arg[i] = US => ~mapHas(backends, SubSeq(aggOut.arg, 1, i - 1))) =>
     (aggOut.err = "Unknown service" /\ aggOut.client = "none")

\* What holds of it: routeToolCall never fails with "Unknown service", since
\* parseName returns registered backends only.
UnknownServiceNeverThrown ==
  aggOut.op = "routeToolCall" =>
     /\ aggOut.err # "Unknown service"
     /\ aggOut.err = "" => mapHas(backends, aggOut.service)

\* A text as the sequence of its pieces.
asText(d) == IF d = "" THEN <<>> ELSE << d >>

\* The tool of a client's list that has this name.
toolNamed(client, name) ==
  LET tools == listTools(client) IN
  tools[CHOOSE i \in 1..Len(tools) : tools[i].name = name]

\* C24: every listed tool has a description, which is "[service] " and the
\* backend's description when that is not empty, and "[service]" otherwise.
C24_DescriptionTagged ==
  aggOut.op = "listAllTools" =>
    \A i \in 1..Len(aggOut.listing) :
      LET e == aggOut.listing[i]
          src == toolNamed(backends[mapGet(backends, e.service)].client, e.originalName)
          d == IF src.description = Undefined THEN "" ELSE src.description
      IN /\ e.description # Undefined
         /\ asText(e.description) =
              IF d # "" THEN <<"[">> \o e.service \o <<"] ">> \o asText(d)
              ELSE <<"[">> \o e.service \o <<"]">>

\* What holds of it: the description is defined, and is the backend's, or
\* empty when the backend gives none.
DescriptionDefined ==
  aggOut.op = "listAllTools" =>
    \A i \in 1..Len(aggOut.listing) :
      LET e == aggOut.listing[i]
          src == toolNamed(backends[mapGet(backends, e.service)].client, e.originalName)
      IN /\ e.description # Undefined
         /\ e.description = (IF src.description = Undefined THEN "" ELSE src.description)


(***************************************************************************)
(* Claims about the exit handler and stop, checked under Spec.  A step in  *)
(* which a child of this instance goes from alive to dead is the exit      *)
(* handler's job for that child.                                           *)
(***************************************************************************)
exitOf(pid) == procs[pid].alive /\ ~procs'[pid].alive

\* A call of stop awaits the exit of child pid.
stopping(pid) ==
  \E t \in TaskIds : tasks[t].proc = pid /\ tasks[t].pc \in {"stop_race", "stop_kill"}

\* The step started a call of start for n: its task is in flight, or it has
\* already spawned.
startTriggered(n) ==
  \/ \E t \in TaskIds : /\ tasks[t].pc = "free"
                        /\ tasks'[t].pc # "free"
                        /\ tasks'[t].op = "exitStart"
                        /\ tasks'[t].name = n
  \/ Len(procs') > Len(procs)

persisted(file, n, st) == n \in DOMAIN file /\ file[n].state = st

C25_Step ==
  \A pid \in 1..Len(procs) :
    LET n == procs[pid].name IN
    (exitOf(pid) /\ states[n] = "ready" /\ ~stopping(pid)) =>
      /\ startTriggered(n) <=> cfg[n].restart \in {"on-failure", "always"}
      /\ Len(procs') = Len(procs) =>
           states'[n] = "error" /\ persisted(stateFile', n, "error")
      /\ cfg[n].restart = "never" => tasks' = tasks /\ services'[n] = 0

\* Under never the state error stays until the next call on the supervisor.
C25_Stays ==
  \A n \in svcs :
    (/\ states[n] = "error"
     /\ cfg[n].restart = "never"
     /\ idle
     /\ liveChildren(n) = {}
     /\ calls' = calls) => states'[n] = "error" /\ procs' = procs

\* C25: when a child exits while its service is ready and no stop awaits it,
\* the state becomes error and is persisted; a start is triggered exactly
\* under on-failure and always; under never nothing is spawned and the state
\* stays error until the next explicit operation.
C25_CrashHandled == [][C25_Step /\ C25_Stays]_vars

\* The exit handler restarted a crashed stdio service: one call, two spawns.
C25_Witness ==
  /\ calls = 1
  /\ Len(procs) = 2
  /\ ~procs[1].alive
  /\ procs[2].alive
  /\ cfg["s1"].transport = "stdio"
  /\ states["s1"] = "ready"

\* Under never the crashed service rests in error.
C25_WitnessNever ==
  /\ cfg["s1"].restart = "never"
  /\ Len(procs) = 1
  /\ ~procs[1].alive
  /\ idle
  /\ states["s1"] = "error"
  /\ persisted(stateFile, "s1", "error")


\* What the exit handler makes of the current state when child pid exits
\* with the given code.
afterExit(pid, code) ==
  onExit([Cur EXCEPT !.procs[pid].alive = FALSE], procs[pid].name, code)

\* The handler's result S holds a call of start for n that the state before
\* did not hold.
retried(S, n) ==
  \/ \E t \in TaskIds : /\ tasks[t].pc = "free"
                        /\ S.tasks[t].pc # "free"
                        /\ S.tasks[t].op = "exitStart"
                        /\ S.tasks[t].name = n
  \/ Len(S.procs) > Len(procs)

\* The handler's result S shows state st for n, in memory and in the file;
\* once the retried start has spawned, the file shows st until that start
\* persists ready.
settles(S, n, st) ==
  IF Len(S.procs) = Len(procs)
  THEN S.states[n] = st /\ persisted(S.stateFile, n, st)
  ELSE S.states[n] = "ready" \/ persisted(S.stateFile, n, st)

exitsNotReady(pid) ==
  JobDone /\ procs[pid].alive /\ states[procs[pid].name] # "ready"

\* C26: when a child exits while the state is not ready, a non-zero code
\* sets error and retries exactly under on-failure and always; a zero code
\* with prior state other than starting sets stopped and persists it; under
\* always a start is retried whatever the code.
C26_ExitNotReady ==
  \A pid \in 1..Len(procs), code \in {"zero", "nonzero", "null"} :
    LET n == procs[pid].name
        S == afterExit(pid, code)
    IN (exitsNotReady(pid) /\ S.ok) =>
         /\ code = "nonzero" =>
              /\ settles(S, n, "error")
              /\ retried(S, n) <=> cfg[n].restart \in {"on-failure", "always"}
         /\ (code = "zero" /\ states[n] # "starting") => settles(S, n, "stopped")
         /\ cfg[n].restart = "always" => retried(S, n)

\* A child that was still starting exited with a non-zero code under never:
\* the state is error, persisted, while the call of start is still waiting.
C26_Witness ==
  /\ cfg["s1"].restart = "never"
  /\ Len(procs) = 1
  /\ ~procs[1].alive
  /\ procs[1].sig = "none"
  /\ states["s1"] = "error"
  /\ persisted(stateFile, "s1", "error")
  /\ \E t \in TaskIds : tasks[t].op = "start" /\ tasks[t].pc # "free"


\* The state file's entry for n agrees with the in-memory maps.
fileAgrees(n) ==
  /\ n \in DOMAIN stateFile
  /\ stateFile[n].state = states[n]
  /\ stateFile[n].pid = pids[n]
  /\ stateFile[n].url = urls[n]

\* C27: once a service has a state in memory, the state file's entry for it
\* holds the same state, pid and url after every change, the transitions to
\* starting and to error on a readiness timeout included.
C27_Persisted ==
  \A n \in svcs : (JobDone /\ states[n] # "absent") => fileAgrees(n)

\* With no call in flight the file agrees with the maps.
PersistedAtRest ==
  \A n \in svcs : (idle /\ states[n] # "absent") => fileAgrees(n)


\* While a call of stop on a name awaits its child, the exit of a child of
\* that name starts nothing.
C28_NoRestart ==
  \A pid \in 1..Len(procs) :
    LET n == procs[pid].name IN
    (/\ exitOf(pid)
     /\ \E t \in TaskIds : tasks[t].name = n /\ tasks[t].pc \in {"stop_race", "stop_kill"})
      => ~startTriggered(n)

\* The body of stop ends with no child of the name tracked.
C28_Untracked ==
  \A t \in TaskIds :
    (tasks[t].pc = "stop_tail" /\ tasks'[t].pc # "stop_tail")
      => services'[tasks[t].name] = 0 /\ pids'[tasks[t].name] = 0

\* A call of stop that finds no tracked child changes nothing.
C28_NoOp ==
  \A t \in TaskIds :
    (/\ tasks[t].pc = "free"
     /\ tasks'[t].op = "stop"
     /\ services[tasks'[t].name] = 0)
      => /\ UNCHANGED << services, states, pids, urls, stateFile, cfg, procs >>
         /\ tasks'[t].pc = "stop_done"

\* C28: whatever the restart policy, the exit handler does not restart a
\* child terminated by stop; when stop returns no child of the name is
\* tracked; stop on a name without a tracked child changes nothing.
C28_StopSuppressesRestart == [][C28_NoRestart /\ C28_Untracked /\ C28_NoOp]_vars

\* A child of a service with policy always was stopped and stop has
\* returned: one spawn, the child dead after SIGTERM or SIGKILL, nothing
\* tracked.
C28_Witness ==
  /\ cfg["s1"].restart = "always"
  /\ ev.type = "stopDone"
  /\ Len(procs) = 1
  /\ ~procs[1].alive
  /\ procs[1].sig # "none"
  /\ services["s1"] = 0


\* A call of stop that finds a tracked child sends it SIGTERM.
C30_TermFirst ==
  \A t \in TaskIds :
    (tasks[t].pc # "stop_race" /\ tasks'[t].pc = "stop_race")
      => /\ tasks'[t].proc = services[tasks'[t].name]
         /\ tasks'[t].proc # 0
         /\ procs'[tasks'[t].proc].sig = "TERM"

\* SIGKILL goes to a live child that was sent SIGTERM, from a call of stop
\* whose 5 s timer has won the race.
C30_KillAfterTimer ==
  \A pid \in 1..Len(procs) :
    (procs[pid].sig # "KILL" /\ procs'[pid].sig = "KILL")
      => /\ procs[pid].sig = "TERM"
         /\ procs[pid].alive
         /\ \E t \in TaskIds : /\ tasks[t].pc = "stop_race"
                               /\ tasks[t].proc = pid
                               /\ tasks'[t].pc = "stop_kill"

\* The body of stop ends after the child's exit, with state stopped in
\* memory and in the file.
C30_ReturnsAfterExit ==
  \A t \in TaskIds :
    (tasks[t].pc = "stop_tail" /\ tasks'[t].pc # "stop_tail")
      => /\ ~procs[tasks[t].proc].alive
         /\ states'[tasks[t].name] = "stopped"
         /\ persisted(stateFile', tasks[t].name, "stopped")

\* C30: stop on a tracked child sends SIGTERM first; SIGKILL only when the
\* child has not exited within 5 s, never before SIGTERM; stop returns only
\* after the child has exited, with state stopped, persisted.
C30_TermThenKill == [][C30_TermFirst /\ C30_KillAfterTimer /\ C30_ReturnsAfterExit]_vars

\* A child that ignored SIGTERM was killed and stop has returned.
C30_Witness ==
  /\ ev.type = "stopDone"
  /\ Len(procs) = 1
  /\ procs[1].sig = "KILL"
  /\ ~procs[1].alive
  /\ states["s1"] = "stopped"
  /\ persisted(stateFile, "s1", "stopped")

\* Call t of start returns in this step through the external path: its
\* second isReachable answered true.
returnsExternal(t) ==
  /\ tasks[t].pc = "s_reuse2"
  /\ tasks'[t].pc = "free"
  /\ \/ ev'.type \in {"startOk", "restartOk"} /\ ev'.via = "external"
     \/ tasks[t].op = "exitStart" /\ services[tasks[t].name] = 0

C31_Step ==
  \A t \in TaskIds :
    LET n == tasks[t].name IN
    returnsExternal(t) =>
      /\ procs' = procs
      /\ services' = services
      /\ states'[n] = "ready"
      /\ pids'[n] = pids[n]
      /\ persisted(stateFile', n, "ready")
      /\ stateFile'[n].pid = pids[n]

\* C31: a start of an sse service that finds the readiness URL reachable
\* without a live pid in the state file spawns nothing, sets ready, persists
\* and returns, and records no pid.
C31_ExternalAdopts == [][C31_Step]_vars

\* A fresh instance found the url served by a process it knows no pid of.
C31_Witness ==
  /\ ev.type = "startOk"
  /\ ev.via = "external"
  /\ procs = <<>>
  /\ states["s1"] = "ready"
  /\ pids["s1"] = 0
  /\ persisted(stateFile, "s1", "ready")
  /\ stateFile["s1"].pid = 0

\* A call of start waits for the first isReachable only with a state-file
\* pid that is alive.
C32_DeadPidSkipped ==
  \A t \in TaskIds :
    (tasks[t].pc # "s_reuse1" /\ tasks'[t].pc = "s_reuse1")
      => /\ tasks'[t].saved # 0
         /\ IF tasks'[t].saved = ExtPid THEN extAlive
            ELSE tasks'[t].saved \in 1..Len(procs') /\ procs'[tasks'[t].saved].alive

\* A call of start whose second isReachable fails with nothing serving the
\* url spawns a child, and the pid recorded is that child's.
C32_SpawnsNew ==
  \A t \in TaskIds :
    LET n == tasks[t].name IN
    (tasks[t].pc = "s_reuse2" /\ tasks'[t] # tasks[t] /\ ~canReach(n))
      => /\ Len(procs') = Len(procs) + 1
         /\ procs'[Len(procs')] = [name |-> n, alive |-> TRUE, sig |-> "none"]
         /\ services'[n] = Len(procs')
         /\ pids'[n] = Len(procs')
         /\ tasks'[t].mine = Len(procs')

\* C32: start never adopts a dead process: with a state-file pid that is not
\* alive and the url unreachable it spawns a new child, and the pid recorded
\* for the name is the new child's, never the stale one.
C32_NoDeadAdoption == [][C32_DeadPidSkipped /\ C32_SpawnsNew]_vars

\* The state file named a dead process of another instance; start spawned
\* child 1 and recorded its pid.
C32_Witness ==
  /\ ~extAlive
  /\ stateFile = OtherInstanceFile
  /\ calls = 1
  /\ cfg["s1"].transport = "sse"
  /\ cfg["s1"].url
  /\ Len(procs) = 1
  /\ procs[1].alive
  /\ pids["s1"] = 1
  /\ \E t \in TaskIds : tasks[t].pc = "w_poll" /\ tasks[t].mine = 1

(***************************************************************************)
(* Claims checked under PolicySpec, where the configured policy of s1 is   *)
(* on-failure or always: stop writes never and what it read, so never at   *)
(* rest is a policy that was not restored.                                 *)
(***************************************************************************)
stopInFlight(n) ==
  \E t \in TaskIds : tasks[t].name = n /\ tasks[t].pc \in {"stop_race", "stop_kill", "stop_tail"}

\* C29: once every call of stop in flight for a service has returned, its
\* config.restart is what it was before the first of them began, also when
\* the calls overlap.
C29_PolicyRestored == ~stopInFlight("s1") => cfg["s1"].restart # "never"

\* The policy only ever changes to never and back.
PolicyNeverOrConfigured ==
  [][cfg'["s1"].restart # cfg["s1"].restart
       => "never" \in {cfg["s1"].restart, cfg'["s1"].restart}]_vars


(***************************************************************************)
(* Claims about the proxy's shutdown, checked under LifeSpec.              *)
(***************************************************************************)
\* The step starts a reconnect attempt: the timer of attemptReconnect fires
\* and client.connect spawns a backend child.
attemptStarts == recon.phase = "timer" /\ recon'.phase = "connecting"

\* The step connects the client to a new backend child.
backendComesUp == backend # "up" /\ backend' = "up"

\* C33: shutting-down is terminal: once cleanup has begun the proxy never
\* serves or reconnects again; no reconnect attempt starts and no backend
\* child is spawned after that point.
C33_ShutdownTerminal ==
  [][cleaningUp => (cleaningUp' /\ ~attemptStarts /\ ~backendComesUp)]_vars

\* Once cleanup has begun it stays begun, and under never nothing reconnects.
ShutdownFlagStays ==
  [][cleaningUp => (cleaningUp' /\ (proxyRestart = "never" => ~attemptStarts))]_vars

\* cleanup has called client.close().
clientClosed == \E i \in DOMAIN shutdownLog : shutdownLog[i] = "client"

\* C34: the shared backend client is never closed while a session is active:
\* whenever cleanup has closed the client and the proxy still runs, the
\* session map is empty, also when GET /sse arrives during the shutdown.
C34_NoSessionWhileClosed == (clientClosed /\ ~exited) => sessions = {}

\* At the step in which cleanup closes the client the session map is empty.
ClosedWhenEmpty ==
  [][(~clientClosed /\ clientClosed') => (sessions = {} /\ sessions' = {})]_vars


(***************************************************************************)
(* Claims about a throwing middleware, checked under FrontSpec.            *)
(***************************************************************************)
\* The last operation was a tool call that reached its backend and whose
\* service has a response function that throws in its chain.
routedWithThrow ==
  /\ frontOut.op = "callTool"
  /\ aggOut.op = "routeToolCall" /\ aggOut.err = ""
  /\ parseName(frontOut.arg).service \in DOMAIN serviceMiddlewares
  /\ applyMiddlewareThrows(serviceMiddlewares[parseName(frontOut.arg).service])

\* C35: if a middleware's response function throws during a tool call the
\* caller receives the untransformed backend result and the failure is
\* logged; the call does not fail.
C35_ThrowKeepsResult ==
  routedWithThrow => (frontOut.err = "" /\ frontOut.result = << >> /\ frontOut.logged)

\* What the handler does instead: it logs the failure and the call fails.
ThrowFailsCall ==
  routedWithThrow => (frontOut.err = "response threw" /\ frontOut.logged)


(***************************************************************************)
(* Claims about children of one name, checked under Spec.                  *)
(***************************************************************************)
\* The process map holds a child of pid's name other than pid: a newer one.
newerRegistered(pid) ==
  services[procs[pid].name] # 0 /\ services[procs[pid].name] # pid

\* C36: the exit handler of a child affects only that child's bookkeeping:
\* when a child exits after a newer child of its name has been registered,
\* the newer child's process-map entry, PID and state stay as they are.
C36_Step ==
  \A pid \in 1..Len(procs) :
    (exitOf(pid) /\ newerRegistered(pid)) =>
      LET n == procs[pid].name IN
      /\ services'[n] = services[n]
      /\ pids'[n] = pids[n]
      /\ states'[n] = states[n]

C36_OwnBookkeeping == [][C36_Step]_vars

\* While the map holds the exiting child itself, the handler removes it.
ExitRemovesOwnEntry ==
  [][\A pid \in 1..Len(procs) :
       (exitOf(pid) /\ services[procs[pid].name] = pid)
          => services'[procs[pid].name] # pid]_vars

\* The process map holds a child for n and the pid map a PID.
tracked(svc, pidMap, n) == svc[n] # 0 /\ pidMap[n] # 0

\* Call t, which spawned a child, sets ready in this step: waitForReady has
\* returned.
readyAfterSpawn(t) ==
  /\ tasks[t].via = "spawn"
  /\ tasks[t].pc = "w_ok"
  /\ tasks'[t].pc # "w_ok"

\* A start that spawned sets ready only with its child and PID in the maps.
C37_SetStep ==
  \A t \in TaskIds :
    readyAfterSpawn(t) =>
      (states'[tasks[t].name] = "ready" => tracked(services', pids', tasks[t].name))

\* A ready service with a tracked child stays tracked while it stays ready.
C37_KeepStep ==
  \A n \in SvcNames :
    (states[n] = "ready" /\ tracked(services, pids, n) /\ states'[n] = "ready")
      => tracked(services', pids', n)

\* C37: whenever a service that this supervisor spawned has state ready, the
\* process map holds a tracked child and a PID for it: ready is set with the
\* child tracked, and stays only while it is tracked.
C37_ReadyIsTracked == [][C37_SetStep /\ C37_KeepStep]_vars

\* The second half alone.
ReadyStaysTracked == [][C37_KeepStep]_vars

\* With no other process serving the url, a start that spawned sets ready
\* only with its child tracked.
ReadyTrackedWithoutOutsider ==
  [][\A t \in TaskIds :
       (readyAfterSpawn(t) /\ ~extAlive /\ states'[tasks[t].name] = "ready")
          => tracked(services', pids', tasks[t].name)]_vars


(***************************************************************************)
(* Claims about a start that timed out, checked under Spec.                *)
(***************************************************************************)
\* The caller has made one call, a start of n, and it has rejected with the
\* readiness timeout: n waits for its url, a child was spawned, the call is
\* over, and the url has never answered, so the call did not return normally.
rejectedByTimeout(n) ==
  /\ calls = 1
  /\ cfg[n].transport = "sse" /\ cfg[n].url
  /\ Len(procs) > 0 /\ \A p \in 1..Len(procs) : procs[p].name = n
  /\ \A t \in TaskIds : tasks[t].op # "start"
  /\ ~answered[n]

\* Some child of n is alive.
childAlive(n) == \E p \in 1..Len(procs) : procs[p].name = n /\ procs[p].alive

\* C38: after start(name) has rejected with a readiness timeout, and until
\* the caller calls again, the state stays error and no child of name is
\* spawned or alive, whatever the restart policy and the exits of children
\* during the wait.
C38_QuietAfterTimeout ==
  \A n \in SvcNames : rejectedByTimeout(n) => (states[n] = "error" /\ ~childAlive(n))

\* The rejection itself leaves the state error, and leads to the states the
\* claim is about.
TimeoutRejects ==
  [][\A n \in SvcNames :
       (ev'.type = "startErr" /\ ev'.msg = "timed out" /\ ev'.name = n /\ calls' = 1
          /\ ~answered'[n])
        => (rejectedByTimeout(n)' /\ states'[n] = "error")]_vars

\* With the policy never and no call in flight the service stays as the
\* rejection left it.
QuietUnderNever ==
  \A n \in SvcNames :
    (rejectedByTimeout(n) /\ cfg[n].restart = "never" /\ \A t \in TaskIds : tasks[t].pc = "free")
       => (states[n] = "error" /\ ~childAlive(n))


(***************************************************************************)
(* Claims about excluded tools, checked under AggSpec.                     *)
(***************************************************************************)
\* The last call was routeToolCall for the external name of tool o of the
\* registered backend i, which parseName resolves to that backend, and o is
\* in the backend's exclusion set.
routedExcluded(i, o) ==
  /\ aggOut.op = "routeToolCall"
  /\ backends[i].name \in DOMAIN excludedTools
  /\ o \in excludedTools[backends[i].name]
  /\ aggOut.arg = IF needsPrefix THEN externalName(backends[i].name, o) ELSE o
  /\ parseName(aggOut.arg).service = backends[i].name

\* C39: exclusion applies to the listing only: routeToolCall for a name that
\* resolves to an excluded tool of a registered backend calls that backend's
\* callTool with the tool's original name.
C39_ExcludedStillRouted ==
  \A i \in 1..Len(backends), o \in ToolNames :
    routedExcluded(i, o) =>
      /\ aggOut.err = ""
      /\ aggOut.service = backends[i].name
      /\ aggOut.client = backends[i].client
      /\ aggOut.tool = o

\* With two backends, a_t was routed to backend a although a excludes t.
C39_Witness ==
  /\ Len(backends) = 2
  /\ backends[1] = [name |-> <<"a">>, client |-> "c1"]
  /\ <<"a">> \in DOMAIN excludedTools
  /\ excludedTools[<<"a">>] = {<<"t">>}
  /\ routedExcluded(1, <<"t">>)
  /\ aggOut.arg = <<"a", "_", "t">>
  /\ aggOut.client = "c1" /\ aggOut.tool = <<"t">> /\ aggOut.err = ""


(***************************************************************************)
(* Claims about the state file's writers, checked under StopAllSpec.       *)
(***************************************************************************)
\* The names in the process map or the state map of this instance.
knownNames(svc, st) == { n \in SvcNames : svc[n] # 0 \/ st[n] # "absent" }

\* stopAll returns in this step.
stopAllReturns == ev'.type = "stopAllDone"

\* A write of the file holds the names this instance knew before the step
\* and no name it does not know after it: nothing else is kept.
C40_WriteStep ==
  (stateFile' # stateFile /\ ~stopAllReturns) =>
     /\ knownNames(services, states) \subseteq DOMAIN stateFile'
     /\ DOMAIN stateFile' \subseteq knownNames(services', states')

\* When stopAll returns the file is gone.
C40_StopAllStep == stopAllReturns => stateFile' = EmptyFile

\* C40: every state-file write replaces the whole file with exactly the
\* services known to the writing instance, so that entries of other names
\* written by another instance are not preserved, and stopAll removes the
\* file altogether.
C40_WholeFile == [][C40_WriteStep /\ C40_StopAllStep]_vars

\* The other instance's entry for s1 was in the file when start(s1) read it;
\* the start of s2 has written the file since, with s2 alone.
C40_Witness ==
  /\ \E t \in TaskIds : /\ tasks[t].name = "s1"
                        /\ tasks[t].pc = "s_reuse1"
                        /\ tasks[t].saved = ExtPid
  /\ states["s1"] = "absent"
  /\ DOMAIN stateFile = {"s2"}

\* stopAll has stopped a running child and has removed the file.
StopAllRemovedFile ==
  /\ ev.type = "stopAllDone"
  /\ stateFile = EmptyFile
  /\ states["s2"] = "stopped"
  /\ Len(procs) > 0 /\ \A p \in 1..Len(procs) : ~procs[p].alive

=============================================================================
